---- MODULE Spec2Model ----
(***************************************************************************)
(* A model of prometheus-http-query: the custom value parsers and the      *)
(* typed envelope decoder of src/src/response.rs, and the query shell      *)
(* (Client::query, Client::query_range, parse_response) of                 *)
(* src/src/client.rs.                                                      *)
(*                                                                         *)
(* Strings that the code walks character by character are sequences of     *)
(* one-character strings.  i64 values are four 16-bit limbs, least         *)
(* significant first, in two's complement, so that products such as        *)
(* num * 1000 * 60 * 60 * 24 * 365 keep the width the code gives them.     *)
(***************************************************************************)
EXTENDS Integers, Sequences, FiniteSets

VARIABLES
    raw_str,    \* de::deserialize_prometheus_duration: the input string
    duration,   \* its result, or Pending
    doc,        \* the JSON document handed to the decoders
    typed,      \* serde_json::from_value::<ApiResponse<PromqlResult>>(doc)
    shell,      \* parse_response(doc)
    base_url,   \* Client.base_url
    calls,      \* the state of each in-flight Client::query / query_range call
    wire        \* the HTTP requests handed to the transport, in order

vars == <<raw_str, duration, doc, typed, shell, base_url, calls, wire>>

Pending == [st |-> "pending"]

-----------------------------------------------------------------------------
(* i64 arithmetic on limbs.                                                *)

Base == 2^16
HalfBase == 2^15

\* 0 <= n < 2^31 as an i64.
I64(n) == <<n % Base, n \div Base, 0, 0>>

I64Negative(x) == x[4] >= HalfBase

\* x * k truncated to 64 bits, 0 < k <= 1000; ovf: the signed product of a
\* non-negative x does not fit.
I64MulSmall(x, k) ==
    LET p1 == x[1] * k
        p2 == x[2] * k + (p1 \div Base)
        p3 == x[3] * k + (p2 \div Base)
        p4 == x[4] * k + (p3 \div Base)
        v  == <<p1 % Base, p2 % Base, p3 % Base, p4 % Base>>
    IN  [v |-> v, ovf |-> (p4 \div Base) # 0 \/ I64Negative(v)]

\* x + y truncated to 64 bits; ovf: the signed sum of two non-negative
\* values does not fit.
I64Add(x, y) ==
    LET s1 == x[1] + y[1]
        s2 == x[2] + y[2] + (s1 \div Base)
        s3 == x[3] + y[3] + (s2 \div Base)
        s4 == x[4] + y[4] + (s3 \div Base)
        v  == <<s1 % Base, s2 % Base, s3 % Base, s4 % Base>>
    IN  [v |-> v, ovf |-> ~I64Negative(x) /\ ~I64Negative(y) /\ I64Negative(v)]

\* ((x * ks[1]) * ks[2]) * ..., left to right as the code's expression.
RECURSIVE I64MulChain(_, _)
I64MulChain(x, ks) ==
    IF ks = <<>> THEN [v |-> x, ovf |-> FALSE]
    ELSE LET h == I64MulSmall(x, Head(ks))
             t == I64MulChain(h.v, Tail(ks))
         IN  [v |-> t.v, ovf |-> h.ovf \/ t.ovf]

-----------------------------------------------------------------------------
(* de::deserialize_prometheus_duration                                     *)

IsDigit(c) == c \in {"0", "1", "2", "3", "4", "5", "6", "7", "8", "9"}

DigitVal(c) ==
    CASE c = "0" -> 0 [] c = "1" -> 1 [] c = "2" -> 2 [] c = "3" -> 3
      [] c = "4" -> 4 [] c = "5" -> 5 [] c = "6" -> 6 [] c = "7" -> 7
      [] c = "8" -> 8 [] c = "9" -> 9

\* str::parse::<i64> on a run of ASCII digits: an error on the empty string
\* and on a value above i64::MAX.
RECURSIVE ParseDigits(_, _)
ParseDigits(ds, acc) ==
    IF ds = <<>> THEN [ok |-> TRUE, v |-> acc]
    ELSE LET m == I64MulSmall(acc, 10)
             a == I64Add(m.v, I64(DigitVal(Head(ds))))
         IN  IF m.ovf \/ a.ovf THEN [ok |-> FALSE, v |-> acc]
             ELSE ParseDigits(Tail(ds), a.v)

\* A parse that reads the empty string as 0.
ParseI64EmptyIsZero(ds) == ParseDigits(ds, I64(0))

ParseI64(ds) ==
    IF ds = <<>> THEN [ok |-> FALSE, v |-> I64(0)] ELSE ParseDigits(ds, I64(0))

\* The 'h' arm with the factors of the 'm' arm.
HourFactorsOfMinutes == <<1000, 60>>

\* The 'd' arm with a day of 23 hours and 40 minutes (num * 1000 * 60 * 1420).
DayFactorsShort == <<1000, 60, 1420>>

\* The multipliers applied to num, in the order the code multiplies them.
YearFactors == <<1000, 60, 60, 24, 365>>
WeekFactors == <<1000, 60, 60, 24, 7>>
DayFactors  == <<1000, 60, 60, 24>>
HourFactors == <<1000, 60, 60>>
MinuteFactors == <<1000, 60>>
SecondFactors == <<1000>>
\* the arm taken when 'm' is followed by 's'
MsFactors == <<1000, 60, 60>>

UnitChars == {"y", "w", "d", "h", "m", "s"}

\* The match on the unit character: the factors of the arm and the number
\* of characters the arm consumes from the iterator.
UnitArm(s, i) ==
    LET item == s[i] IN
    CASE item = "y" -> [fs |-> YearFactors, adv |-> 1]
      [] item = "w" -> [fs |-> WeekFactors, adv |-> 1]
      [] item = "d" -> [fs |-> DayFactors, adv |-> 1]
      [] item = "h" -> [fs |-> HourFactors, adv |-> 1]
      [] item = "m" -> IF i + 1 <= Len(s) /\ s[i + 1] = "s"
                       THEN [fs |-> MsFactors, adv |-> 2]
                       ELSE [fs |-> MinuteFactors, adv |-> 1]
      [] item = "s" -> [fs |-> SecondFactors, adv |-> 1]

\* The while loop without raw_num.clear() at the end of an iteration.
RECURSIVE DurationLoopNoClear(_, _, _, _, _)
DurationLoopNoClear(s, i, raw_num, total, ovf) ==
    IF i > Len(s) THEN [st |-> "ok", ms |-> total, ovf |-> ovf]
    ELSE IF IsDigit(s[i]) THEN DurationLoopNoClear(s, i + 1, Append(raw_num, s[i]), total, ovf)
    ELSE LET num == ParseI64(raw_num) IN
         IF ~num.ok THEN [st |-> "err", ms |-> total, ovf |-> ovf]
         ELSE IF s[i] \notin UnitChars THEN [st |-> "err", ms |-> total, ovf |-> ovf]
         ELSE LET arm == UnitArm(s, i)
                  p   == I64MulChain(num.v, arm.fs)
                  a   == I64Add(total, p.v)
              IN  DurationLoopNoClear(s, i + arm.adv, raw_num, a.v, ovf \/ p.ovf \/ a.ovf)

\* The while loop: i is the iterator position, raw_num the digits collected
\* since the last unit, total the accumulated total_milliseconds, ovf
\* whether an i64 operation has overflowed so far.
RECURSIVE DurationLoop(_, _, _, _, _)
DurationLoop(s, i, raw_num, total, ovf) ==
    IF i > Len(s) THEN [st |-> "ok", ms |-> total, ovf |-> ovf]
    ELSE IF IsDigit(s[i]) THEN DurationLoop(s, i + 1, Append(raw_num, s[i]), total, ovf)
    ELSE LET num == ParseI64(raw_num) IN
         IF ~num.ok THEN [st |-> "err", ms |-> total, ovf |-> ovf]
         ELSE IF s[i] \notin UnitChars THEN [st |-> "err", ms |-> total, ovf |-> ovf]
         ELSE LET arm == UnitArm(s, i)
                  p   == I64MulChain(num.v, arm.fs)
                  a   == I64Add(total, p.v)
              IN  DurationLoop(s, i + arm.adv, <<>>, a.v, ovf \/ p.ovf \/ a.ovf)

\* What a call can return.  An i64 overflow aborts the call in a build with
\* overflow checks, before anything after it is read, and wraps in a build
\* without them.
deserialize_prometheus_duration(s) ==
    LET r == DurationLoop(s, 1, <<>>, I64(0), FALSE)
        returned == IF r.st = "err" THEN [st |-> "err"] ELSE [st |-> "ok", ms |-> r.ms]
    IN  IF r.ovf THEN {[st |-> "panic"], returned} ELSE {returned}

-----------------------------------------------------------------------------
(* JSON values (serde_json::Value).  An object is a function from its keys *)
(* to values; a key that is missing is not in its domain.                  *)

JNull == [k |-> "null"]
JStr(s) == [k |-> "str", s |-> s]
JNum(n) == [k |-> "num", n |-> n]
JArr(a) == [k |-> "arr", a |-> a]
JObj(o) == [k |-> "obj", o |-> o]

IsStr(v) == v.k = "str"
IsNum(v) == v.k = "num"
IsArr(v) == v.k = "arr"
IsObj(v) == v.k = "obj"

\* No value: a key left out when a document is built, and what a decoder
\* is given for a required field whose key is missing.
Absent == [k |-> "absent"]
MkObj(fields) == JObj([key \in {x \in DOMAIN fields : fields[x] # Absent} |-> fields[key]])

Fail == [ok |-> FALSE]
Ok(v) == [ok |-> TRUE, v |-> v]
None == [some |-> FALSE]
Some(v) == [some |-> TRUE, v |-> v]

\* A struct field with its serde name and aliases: missing when none of the
\* names is a key, a duplicate-field error when more than one is.
Field(o, names) ==
    LET present == names \cap DOMAIN o IN
    IF Cardinality(present) = 1 THEN Ok(o[CHOOSE x \in present : TRUE]) ELSE Fail

\* A field of type T where Option<T> is declared: the key must be there.
OptFieldRequired(o, names) ==
    LET present == names \cap DOMAIN o IN
    IF Cardinality(present) = 1 THEN Ok(Some(o[CHOOSE x \in present : TRUE])) ELSE Fail

\* An Option<T> field: None when the key is missing or null.
OptField(o, names) ==
    LET present == names \cap DOMAIN o IN
    IF present = {} THEN Ok(None)
    ELSE IF Cardinality(present) > 1 THEN Fail
    ELSE LET v == o[CHOOSE x \in present : TRUE] IN
         IF v = JNull THEN Ok(None) ELSE Ok(Some(v))

-----------------------------------------------------------------------------
(* de::deserialize_f64 and the sample types                                *)

\* f64 values: finite ones by a numeral, and the not-a-number value.
F64(n) == [cls |-> "finite", n |-> n]
NaN == [cls |-> "nan", n |-> 0]
Inf == [cls |-> "inf", n |-> 1]

\* f64::from_str on the tokens the documents use.
F64FromStr(s) ==
    CASE s = "0.0" -> Ok(F64(0))
      [] s = "0" -> Ok(F64(0))
      [] s = "1" -> Ok(F64(1))
      [] s = "1e+00" -> Ok(F64(1))
      [] s = "2" -> Ok(F64(2))
      [] s = "3" -> Ok(F64(3))
      [] s = "NaN" -> Ok(NaN)
      [] s = "+Inf" -> Ok(Inf)
      [] OTHER -> Fail

\* deserialize_f64 that takes a JSON number as well as a string.
deserialize_f64_or_number(v) ==
    IF IsNum(v) THEN Ok(F64(v.n))
    ELSE IF IsStr(v) /\ F64FromStr(v.s).ok THEN F64FromStr(v.s)
    ELSE [ok |-> FALSE, unexpected |-> v]

\* String::deserialize, then f64::from_str.  unexpected is what the error
\* names: the value for a number (invalid type), the string for a string
\* that is no float (invalid value, Unexpected::Str), the kind otherwise.
deserialize_f64(v) ==
    IF ~IsStr(v) THEN [ok |-> FALSE, unexpected |-> IF IsNum(v) THEN v ELSE [k |-> v.k]]
    ELSE IF F64FromStr(v.s).ok THEN F64FromStr(v.s)
    ELSE [ok |-> FALSE, unexpected |-> v]

\* f64::deserialize: any JSON number.
DecodeF64(v) == IF IsNum(v) THEN Ok(F64(v.n)) ELSE Fail

\* i64::deserialize / usize::deserialize on the integers the documents use.
DecodeInt(v) == IF IsNum(v) THEN Ok(v.n) ELSE Fail

\* Sample with its two fields declared in the opposite order, so that the
\* array form is read as [value, timestamp].
DecodeSampleValueFirst(v) ==
    IF IsArr(v) THEN
        IF Len(v.a) # 2 THEN Fail
        ELSE LET x == deserialize_f64(v.a[1])
                 t == DecodeF64(v.a[2])
             IN  IF t.ok /\ x.ok THEN Ok([timestamp |-> t.v, value |-> x.v]) ELSE Fail
    ELSE Fail

\* Sample: {timestamp: f64, value: f64 through deserialize_f64}, given as
\* the two-element array [ts, "val"] or as an object with the two keys.
DecodeSample(v) ==
    IF IsArr(v) THEN
        IF Len(v.a) # 2 THEN Fail
        ELSE LET t == DecodeF64(v.a[1])
                 x == deserialize_f64(v.a[2])
             IN  IF t.ok /\ x.ok THEN Ok([timestamp |-> t.v, value |-> x.v]) ELSE Fail
    ELSE IF IsObj(v) THEN
        LET tf == Field(v.o, {"timestamp"})
            xf == Field(v.o, {"value"})
        IN  IF ~(tf.ok /\ xf.ok) THEN Fail
            ELSE LET t == DecodeF64(tf.v)
                     x == deserialize_f64(xf.v)
                 IN  IF t.ok /\ x.ok THEN Ok([timestamp |-> t.v, value |-> x.v]) ELSE Fail
    ELSE Fail

\* HashMap<String, String>: an object whose values are all strings.
DecodeLabels(v) ==
    IF IsObj(v) /\ \A key \in DOMAIN v.o : IsStr(v.o[key])
    THEN Ok([key \in DOMAIN v.o |-> v.o[key].s])
    ELSE Fail

\* Vec<Sample> collected back to front.
DecodeSamplesReversed(v) ==
    IF IsArr(v) /\ \A i \in 1..Len(v.a) : DecodeSample(v.a[i]).ok
    THEN Ok([i \in 1..Len(v.a) |-> DecodeSample(v.a[Len(v.a) + 1 - i]).v])
    ELSE Fail

\* Vec<Sample>
DecodeSamples(v) ==
    IF IsArr(v) /\ \A i \in 1..Len(v.a) : DecodeSample(v.a[i]).ok
    THEN Ok([i \in 1..Len(v.a) |-> DecodeSample(v.a[i]).v])
    ELSE Fail

\* InstantVector {metric, sample (alias value)}
DecodeInstantVector(v) ==
    IF ~IsObj(v) THEN Fail
    ELSE LET mf == Field(v.o, {"metric"})
             sf == Field(v.o, {"sample", "value"})
         IN  IF ~(mf.ok /\ sf.ok) THEN Fail
             ELSE LET m == DecodeLabels(mf.v)
                      s == DecodeSample(sf.v)
                  IN  IF m.ok /\ s.ok THEN Ok([metric |-> m.v, samples |-> <<s.v>>]) ELSE Fail

\* RangeVector {metric, samples (alias values)}
DecodeRangeVector(v) ==
    IF ~IsObj(v) THEN Fail
    ELSE LET mf == Field(v.o, {"metric"})
             sf == Field(v.o, {"samples", "values"})
         IN  IF ~(mf.ok /\ sf.ok) THEN Fail
             ELSE LET m == DecodeLabels(mf.v)
                      s == DecodeSamples(sf.v)
                  IN  IF m.ok /\ s.ok THEN Ok([metric |-> m.v, samples |-> s.v]) ELSE Fail

-----------------------------------------------------------------------------
(* Stats, Data, PromqlResult and the ApiResponse envelope                  *)

\* Timings: six f64 fields, each under its Rust name or its alias.
TimingsFields ==
    { {"eval_total_time", "evalTotalTime"},
      {"result_sort_time", "resultSortTime"},
      {"query_preparation_time", "queryPreparationTime"},
      {"inner_eval_time", "innerEvalTime"},
      {"exec_queue_time", "execQueueTime"},
      {"exec_total_time", "execTotalTime"} }

DecodeTimings(v) ==
    IF IsObj(v) /\ \A names \in TimingsFields :
                      Field(v.o, names).ok /\ DecodeF64(Field(v.o, names).v).ok
    THEN Ok("timings")
    ELSE Fail

\* SamplesPerStep {timestamp: f64, value: usize}, as [ts, n].
DecodeSamplesPerStep(v) ==
    IF IsArr(v) /\ Len(v.a) = 2 /\ DecodeF64(v.a[1]).ok /\ DecodeInt(v.a[2]).ok
    THEN Ok([timestamp |-> DecodeF64(v.a[1]).v, value |-> DecodeInt(v.a[2]).v])
    ELSE Fail

\* Samples {total_queryable_samples_per_step: Option<Vec<SamplesPerStep>>,
\*          total_queryable_samples: i64, peak_samples: i64}
DecodeSampleStats(v) ==
    IF ~IsObj(v) THEN Fail
    ELSE LET ps == OptField(v.o, {"total_queryable_samples_per_step", "totalQueryableSamplesPerStep"})
             tq == Field(v.o, {"total_queryable_samples", "totalQueryableSamples"})
             pk == Field(v.o, {"peak_samples", "peakSamples"})
         IN  IF ~(ps.ok /\ tq.ok /\ pk.ok) THEN Fail
             ELSE IF ~(DecodeInt(tq.v).ok /\ DecodeInt(pk.v).ok) THEN Fail
             ELSE IF ~ps.v.some
                  THEN Ok([total_queryable_samples_per_step |-> None,
                           total_queryable_samples |-> DecodeInt(tq.v).v,
                           peak_samples |-> DecodeInt(pk.v).v])
             ELSE IF IsArr(ps.v.v) /\ \A i \in 1..Len(ps.v.v.a) : DecodeSamplesPerStep(ps.v.v.a[i]).ok
                  THEN Ok([total_queryable_samples_per_step |->
                               Some([i \in 1..Len(ps.v.v.a) |-> DecodeSamplesPerStep(ps.v.v.a[i]).v]),
                           total_queryable_samples |-> DecodeInt(tq.v).v,
                           peak_samples |-> DecodeInt(pk.v).v])
             ELSE Fail

\* Stats {timings, samples}
DecodeStats(v) ==
    IF ~IsObj(v) THEN Fail
    ELSE LET tf == Field(v.o, {"timings"})
             sf == Field(v.o, {"samples"})
         IN  IF ~(tf.ok /\ sf.ok) THEN Fail
             ELSE IF DecodeTimings(tf.v).ok /\ DecodeSampleStats(sf.v).ok
                  THEN Ok([samples |-> DecodeSampleStats(sf.v).v])
                  ELSE Fail

\* The variant a resultType string selects.  #[serde(alias = ...)] adds the
\* lower-case name to the variant's own name, which stays accepted.
DataVariant(tag) ==
    CASE tag \in {"Vector", "vector"} -> Ok("Vector")
      [] tag \in {"Matrix", "matrix"} -> Ok("Matrix")
      [] tag \in {"Scalar", "scalar"} -> Ok("Scalar")
      [] OTHER -> Fail

\* Data: #[serde(tag = "resultType", content = "result")], read from the
\* object o.  Both keys are required; the tag is a string.
DecodeData(o) ==
    LET tf == Field(o, {"resultType"})
        cf == Field(o, {"result"})
    IN  IF ~(tf.ok /\ cf.ok) THEN Fail
        ELSE IF ~IsStr(tf.v) THEN Fail
        ELSE LET variant == DataVariant(tf.v.s) IN
             IF ~variant.ok THEN Fail
             ELSE IF variant.v = "Vector" THEN
                 IF IsArr(cf.v) /\ \A i \in 1..Len(cf.v.a) : DecodeInstantVector(cf.v.a[i]).ok
                 THEN Ok([variant |-> "Vector",
                          series |-> [i \in 1..Len(cf.v.a) |-> DecodeInstantVector(cf.v.a[i]).v]])
                 ELSE Fail
             ELSE IF variant.v = "Matrix" THEN
                 IF IsArr(cf.v) /\ \A i \in 1..Len(cf.v.a) : DecodeRangeVector(cf.v.a[i]).ok
                 THEN Ok([variant |-> "Matrix",
                          series |-> [i \in 1..Len(cf.v.a) |-> DecodeRangeVector(cf.v.a[i]).v]])
                 ELSE Fail
             ELSE IF DecodeSample(cf.v).ok
                  THEN Ok([variant |-> "Scalar",
                           series |-> <<[metric |-> <<>>, samples |-> <<DecodeSample(cf.v).v>>]>>])
                  ELSE Fail

\* PromqlResult with stats: Stats, a required field.
DecodePromqlResultStatsRequired(v) ==
    IF ~IsObj(v) THEN Fail
    ELSE LET d  == DecodeData(v.o)
             sf == Field(v.o, {"stats"})
         IN  IF ~(d.ok /\ sf.ok) THEN Fail
             ELSE IF DecodeStats(sf.v).ok
                  THEN Ok([data |-> d.v, stats |-> Some(DecodeStats(sf.v).v)])
                  ELSE Fail

\* PromqlResult {#[serde(flatten)] data: Data, stats: Option<Stats>}
DecodePromqlResult(v) ==
    IF ~IsObj(v) THEN Fail
    ELSE LET d  == DecodeData(v.o)
             sf == OptField(v.o, {"stats"})
         IN  IF ~(d.ok /\ sf.ok) THEN Fail
             ELSE IF ~sf.v.some THEN Ok([data |-> d.v, stats |-> None])
             ELSE IF DecodeStats(sf.v.v).ok
                  THEN Ok([data |-> d.v, stats |-> Some(DecodeStats(sf.v.v).v)])
                  ELSE Fail

\* crate::error::PrometheusError: the errorType and error string fields.
DecodePrometheusError(o) ==
    LET tf == Field(o, {"errorType"})
        mf == Field(o, {"error"})
    IN  IF tf.ok /\ mf.ok /\ IsStr(tf.v) /\ IsStr(mf.v)
        THEN Ok([kind |-> tf.v.s, message |-> mf.v.s])
        ELSE Fail

\* The status strings of an ApiResponse whose variants carry no alias.
ApiVariantUnaliased(tag) ==
    CASE tag = "Success" -> Ok("Success")
      [] tag = "Error" -> Ok("Error")
      [] OTHER -> Fail

\* The variant a status string selects, as for DataVariant.
ApiVariant(tag) ==
    CASE tag \in {"Success", "success"} -> Ok("Success")
      [] tag \in {"Error", "error"} -> Ok("Error")
      [] OTHER -> Fail

\* Success {data: D} with a data field that defaults when the key is missing.
DecodeSuccessDefaulted(o) ==
    LET df == Field(o, {"data"}) IN
    IF ~df.ok THEN Ok([data |-> [variant |-> "Vector", series |-> <<>>], stats |-> None])
    ELSE DecodePromqlResult(df.v)

\* The Success {data: D} variant with D = PromqlResult: data is required.
DecodeSuccess(o) ==
    LET df == Field(o, {"data"}) IN
    IF ~df.ok THEN Fail ELSE DecodePromqlResult(df.v)

\* ApiResponse<PromqlResult>: #[serde(tag = "status")].
DecodeApiResponse(v) ==
    IF ~IsObj(v) THEN [st |-> "err"]
    ELSE LET tf == Field(v.o, {"status"}) IN
         IF ~tf.ok THEN [st |-> "err"]
         ELSE IF ~IsStr(tf.v) THEN [st |-> "err"]
         ELSE LET variant == ApiVariant(tf.v.s) IN
              IF ~variant.ok THEN [st |-> "err"]
              ELSE IF variant.v = "Success" THEN
                  LET d == DecodeSuccess(v.o) IN
                  IF d.ok THEN [st |-> "Success", data |-> d.v.data, stats |-> d.v.stats]
                  ELSE [st |-> "err"]
              ELSE LET e == DecodePrometheusError(v.o) IN
                   IF e.ok THEN [st |-> "Error", kind |-> e.v.kind, message |-> e.v.message]
                   ELSE [st |-> "err"]

-----------------------------------------------------------------------------
(* The entity decoders: rules, alerts, target metadata, WAL replay         *)

\* String::deserialize
DecodeString(v) == IF IsStr(v) THEN Ok(v.s) ELSE Fail

\* time::serde::rfc3339 on the timestamps the documents use.
Rfc3339(v) ==
    IF IsStr(v) /\ v.s \in {"2023-10-05T19:51:25.052982522+02:00",
                            "2018-07-04T20:27:12.60602144+02:00"}
    THEN Ok(v.s) ELSE Fail

\* The value of a required field; when the key is missing (or given twice)
\* there is none, and every decoder fails on that.
Required(o, names) == IF Field(o, names).ok THEN Field(o, names).v ELSE Absent

\* The value of an Option<T> field that is there and not null.
OptValue(o, names) ==
    IF OptField(o, names).ok /\ OptField(o, names).v.some
    THEN OptField(o, names).v.v ELSE Absent

\* An Option<T> field: f is what OptField found and d the result of T's
\* decoder on OptValue.
Opt(f, d) ==
    IF ~f.ok THEN Fail
    ELSE IF ~f.v.some THEN Ok(None)
    ELSE IF d.ok THEN Ok(Some(d.v)) ELSE Fail

\* crate::util::RuleHealth and crate::util::AlertState, from their tokens.
DecodeRuleHealth(v) ==
    IF ~IsStr(v) THEN Fail
    ELSE CASE v.s = "ok" -> Ok("Good")
           [] v.s = "err" -> Ok("Bad")
           [] v.s = "unknown" -> Ok("Unknown")
           [] OTHER -> Fail

DecodeAlertState(v) ==
    IF IsStr(v) /\ v.s \in {"inactive", "pending", "firing"} THEN Ok(v.s) ELSE Fail

\* MetricType: each variant under its own name and under its alias.
MetricTypeVariant(tag) ==
    CASE tag \in {"Counter", "counter"} -> Ok("Counter")
      [] tag \in {"Gauge", "gauge"} -> Ok("Gauge")
      [] tag \in {"Histogram", "histogram"} -> Ok("Histogram")
      [] tag \in {"GaugeHistogram", "gaugehistogram"} -> Ok("GaugeHistogram")
      [] tag \in {"Summary", "summary"} -> Ok("Summary")
      [] tag \in {"Info", "info"} -> Ok("Info")
      [] tag \in {"Stateset", "stateset"} -> Ok("Stateset")
      [] tag \in {"Unknown", "unknown"} -> Ok("Unknown")
      [] OTHER -> Fail

DecodeMetricType(v) == IF IsStr(v) THEN MetricTypeVariant(v.s) ELSE Fail

\* TargetMetadata {target, metric_type (alias type), metric: Option<String>,
\*                 help, unit}
DecodeTargetMetadata(v) ==
    IF ~IsObj(v) THEN Fail
    ELSE LET target == DecodeLabels(Required(v.o, {"target"}))
             metric_type == DecodeMetricType(Required(v.o, {"metric_type", "type"}))
             metric == Opt(OptField(v.o, {"metric"}), DecodeString(OptValue(v.o, {"metric"})))
             help == DecodeString(Required(v.o, {"help"}))
             unit == DecodeString(Required(v.o, {"unit"}))
         IN  IF target.ok /\ metric_type.ok /\ metric.ok /\ help.ok /\ unit.ok
             THEN Ok([target |-> target.v, metric_type |-> metric_type.v,
                      metric |-> metric.v, help |-> help.v, unit |-> unit.v])
             ELSE Fail

\* WalReplayState: each variant under its own name and under its alias.
WalReplayStateVariant(tag) ==
    CASE tag \in {"Waiting", "waiting"} -> Ok("Waiting")
      [] tag \in {"InProgress", "in progress"} -> Ok("InProgress")
      [] tag \in {"Done", "done"} -> Ok("Done")
      [] OTHER -> Fail

DecodeWalReplayState(v) == IF IsStr(v) THEN WalReplayStateVariant(v.s) ELSE Fail

\* WalReplayStatistics {min, max, current: usize, state: Option<WalReplayState>}
DecodeWalReplayStatistics(v) ==
    IF ~IsObj(v) THEN Fail
    ELSE LET min == DecodeInt(Required(v.o, {"min"}))
             max == DecodeInt(Required(v.o, {"max"}))
             current == DecodeInt(Required(v.o, {"current"}))
             state == Opt(OptField(v.o, {"state"}), DecodeWalReplayState(OptValue(v.o, {"state"})))
         IN  IF min.ok /\ max.ok /\ current.ok /\ state.ok
             THEN Ok([min |-> min.v, max |-> max.v, current |-> current.v,
                      state |-> state.v])
             ELSE Fail

\* RecordingRule {health, name, query, labels: Option<HashMap>,
\*                evaluation_time, last_evaluation}
DecodeRecordingRule(v) ==
    IF ~IsObj(v) THEN Fail
    ELSE LET health == DecodeRuleHealth(Required(v.o, {"health"}))
             name == DecodeString(Required(v.o, {"name"}))
             query == DecodeString(Required(v.o, {"query"}))
             labels == Opt(OptField(v.o, {"labels"}), DecodeLabels(OptValue(v.o, {"labels"})))
             evaluation_time == DecodeF64(Required(v.o, {"evaluation_time", "evaluationTime"}))
             last_evaluation == Rfc3339(Required(v.o, {"last_evaluation", "lastEvaluation"}))
         IN  IF health.ok /\ name.ok /\ query.ok /\ labels.ok /\ evaluation_time.ok
                /\ last_evaluation.ok
             THEN Ok([health |-> health.v, name |-> name.v, query |-> query.v,
                      labels |-> labels.v, evaluation_time |-> evaluation_time.v,
                      last_evaluation |-> last_evaluation.v])
             ELSE Fail

\* Alert {active_at, annotations, labels, state, value through deserialize_f64}
DecodeAlert(v) ==
    IF ~IsObj(v) THEN Fail
    ELSE LET active_at == Rfc3339(Required(v.o, {"active_at", "activeAt"}))
             annotations == DecodeLabels(Required(v.o, {"annotations"}))
             labels == DecodeLabels(Required(v.o, {"labels"}))
             state == DecodeAlertState(Required(v.o, {"state"}))
             value == deserialize_f64(Required(v.o, {"value"}))
         IN  IF active_at.ok /\ annotations.ok /\ labels.ok /\ state.ok /\ value.ok
             THEN Ok([active_at |-> active_at.v, annotations |-> annotations.v,
                      labels |-> labels.v, state |-> state.v, value |-> value.v])
             ELSE Fail

\* Vec<Alert>
DecodeAlerts(v) ==
    IF IsArr(v) /\ \A i \in 1..Len(v.a) : DecodeAlert(v.a[i]).ok
    THEN Ok([i \in 1..Len(v.a) |-> DecodeAlert(v.a[i]).v])
    ELSE Fail

\* AlertingRule: ten required fields.
DecodeAlertingRule(v) ==
    IF ~IsObj(v) THEN Fail
    ELSE LET alerts == DecodeAlerts(Required(v.o, {"alerts"}))
             annotations == DecodeLabels(Required(v.o, {"annotations"}))
             dur == DecodeF64(Required(v.o, {"duration"}))
             health == DecodeRuleHealth(Required(v.o, {"health"}))
             labels == DecodeLabels(Required(v.o, {"labels"}))
             name == DecodeString(Required(v.o, {"name"}))
             query == DecodeString(Required(v.o, {"query"}))
             evaluation_time == DecodeF64(Required(v.o, {"evaluation_time", "evaluationTime"}))
             last_evaluation == Rfc3339(Required(v.o, {"last_evaluation", "lastEvaluation"}))
             keep_firing_for == DecodeF64(Required(v.o, {"keep_firing_for", "keepFiringFor"}))
         IN  IF alerts.ok /\ annotations.ok /\ dur.ok /\ health.ok /\ labels.ok
                /\ name.ok /\ query.ok /\ evaluation_time.ok /\ last_evaluation.ok
                /\ keep_firing_for.ok
             THEN Ok([alerts |-> alerts.v, annotations |-> annotations.v,
                      duration |-> dur.v, health |-> health.v, labels |-> labels.v,
                      name |-> name.v, query |-> query.v,
                      evaluation_time |-> evaluation_time.v,
                      last_evaluation |-> last_evaluation.v,
                      keep_firing_for |-> keep_firing_for.v])
             ELSE Fail

\* The variant a Rule's type string selects: its name or its alias.
RuleVariant(tag) ==
    CASE tag \in {"Recording", "recording"} -> Ok("Recording")
      [] tag \in {"Alerting", "alerting"} -> Ok("Alerting")
      [] OTHER -> Fail

\* Rule: #[serde(tag = "type")]; the variant's struct is read from the
\* other keys of the same object.
DecodeRule(v) ==
    IF ~IsObj(v) THEN Fail
    ELSE LET tf == Field(v.o, {"type"}) IN
         IF ~tf.ok THEN Fail
         ELSE IF ~IsStr(tf.v) THEN Fail
         ELSE LET variant == RuleVariant(tf.v.s)
                  content == JObj([key \in DOMAIN v.o \ {"type"} |-> v.o[key]])
              IN  IF ~variant.ok THEN Fail
                  ELSE IF variant.v = "Recording" THEN
                      IF DecodeRecordingRule(content).ok
                      THEN Ok([variant |-> "Recording", rule |-> DecodeRecordingRule(content).v])
                      ELSE Fail
                  ELSE IF DecodeAlertingRule(content).ok
                       THEN Ok([variant |-> "Alerting", rule |-> DecodeAlertingRule(content).v])
                       ELSE Fail

-----------------------------------------------------------------------------
(* de::deserialize_build_info_date and BuildInformation                    *)

\* "[year repr:full][month repr:numerical][day]-[hour repr:24]:[minute]:[second]"
BUILD_INFO_DATE_FORMAT ==
    << [item |-> "year"], [item |-> "month"], [item |-> "day"],
       [item |-> "literal", text |-> "-"],
       [item |-> "hour"], [item |-> "literal", text |-> ":"],
       [item |-> "minute"], [item |-> "literal", text |-> ":"],
       [item |-> "second"] >>

\* The value of the n characters of s from position i on, all digits.
RECURSIVE DigitsValue(_, _, _)
DigitsValue(s, i, n) ==
    IF n = 0 THEN 0 ELSE DigitsValue(s, i, n - 1) * 10 + DigitVal(s[i + n - 1])

\* time's exactly_n_digits: n digits at position i, and where they end.
ExactlyNDigits(s, i, n) ==
    IF i + n - 1 <= Len(s) /\ (\A j \in i..(i + n - 1) : IsDigit(s[j]))
    THEN [ok |-> TRUE, v |-> DigitsValue(s, i, n), next |-> i + n]
    ELSE [ok |-> FALSE]

\* time's parser of one format item at position i.  A full year is an
\* optional sign and four digits; month and day are two digits and not
\* zero; hour, minute and second are two digits; a literal is itself.
ParseItem(s, i, item) ==
    CASE item.item = "year" ->
             LET signed == i <= Len(s) /\ s[i] \in {"+", "-"}
                 d == ExactlyNDigits(s, IF signed THEN i + 1 ELSE i, 4)
             IN  IF ~d.ok THEN [ok |-> FALSE]
                 ELSE [ok |-> TRUE, next |-> d.next,
                       v |-> IF signed /\ s[i] = "-" THEN 0 - d.v ELSE d.v]
      [] item.item \in {"month", "day"} ->
             LET d == ExactlyNDigits(s, i, 2)
             IN  IF d.ok /\ d.v # 0 THEN d ELSE [ok |-> FALSE]
      [] item.item \in {"hour", "minute", "second"} -> ExactlyNDigits(s, i, 2)
      [] item.item = "literal" ->
             IF i <= Len(s) /\ s[i] = item.text
             THEN [ok |-> TRUE, v |-> 0, next |-> i + 1]
             ELSE [ok |-> FALSE]

\* The items of a format in order from position i, collecting the
\* components; input left over after the last item is an error.
RECURSIVE ParseItems(_, _, _, _, _)
ParseItems(s, i, format, k, parsed) ==
    IF k > Len(format) THEN (IF i = Len(s) + 1 THEN Ok(parsed) ELSE Fail)
    ELSE LET r == ParseItem(s, i, format[k]) IN
         IF ~r.ok THEN Fail
         ELSE ParseItems(s, r.next, format, k + 1,
                         IF format[k].item = "literal" THEN parsed
                         ELSE [parsed EXCEPT ![format[k].item] = r.v])

\* time::util::is_leap_year and days_in_year_month.
is_leap_year(year) == year % 4 = 0 /\ (year % 100 # 0 \/ year % 400 = 0)
days_in_month(year, month) ==
    IF month \in {4, 6, 9, 11} THEN 30
    ELSE IF month = 2 THEN (IF is_leap_year(year) THEN 29 ELSE 28)
    ELSE 31

\* PrimitiveDateTime::parse: the parsed components must make a calendar date
\* (Date::from_calendar_date) and a time of day (Time::from_hms).
PrimitiveDateTimeParse(s, format) ==
    LET r == ParseItems(s, 1, format, 1,
                        [year |-> 0, month |-> 0, day |-> 0,
                         hour |-> 0, minute |-> 0, second |-> 0])
    IN  IF ~r.ok THEN Fail
        ELSE IF /\ r.v.month \in 1..12
                /\ r.v.day \in 1..days_in_month(r.v.year, r.v.month)
                /\ r.v.hour < 24 /\ r.v.minute < 60 /\ r.v.second < 60
             THEN Ok(r.v) ELSE Fail

\* What the error of deserialize_build_info_date says it expected.
BuildInfoDateExpected == "a datetime string in format <yyyymmdd-hh:mm:ss>"

\* de::deserialize_build_info_date: String::deserialize, then
\* PrimitiveDateTime::parse with BUILD_INFO_DATE_FORMAT; a parse error
\* becomes invalid_value naming the string and the expected format.
deserialize_build_info_date(v) ==
    IF ~IsStr(v) THEN [ok |-> FALSE, error |-> "invalid_type"]
    ELSE LET r == PrimitiveDateTimeParse(v.s, BUILD_INFO_DATE_FORMAT) IN
         IF r.ok THEN Ok(r.v)
         ELSE [ok |-> FALSE, error |-> "invalid_value", unexpected |-> v.s,
               expected |-> BuildInfoDateExpected]

\* BuildInformation
DecodeBuildInformation(v) ==
    IF ~IsObj(v) THEN Fail
    ELSE LET version == DecodeString(Required(v.o, {"version"}))
             revision == DecodeString(Required(v.o, {"revision"}))
             branch == DecodeString(Required(v.o, {"branch"}))
             build_user == DecodeString(Required(v.o, {"build_user", "buildUser"}))
             build_date == deserialize_build_info_date(Required(v.o, {"build_date", "buildDate"}))
             go_version == DecodeString(Required(v.o, {"go_version", "goVersion"}))
         IN  IF version.ok /\ revision.ok /\ branch.ok /\ build_user.ok /\ build_date.ok
                /\ go_version.ok
             THEN Ok([version |-> version.v, revision |-> revision.v, branch |-> branch.v,
                      build_user |-> build_user.v, build_date |-> build_date.v,
                      go_version |-> go_version.v])
             ELSE Fail

-----------------------------------------------------------------------------
(* parse_response (src/src/client.rs)                                      *)

Panic == [st |-> "panic"]
Err(name, a, b) == [st |-> "Err", err |-> name, a |-> a, b |-> b]

\* serde_json::Value indexed by a key or a position: Null when the value is
\* not an object (array) or the key (position) is missing.
ValueAtKey(v, key) == IF IsObj(v) /\ key \in DOMAIN v.o THEN v.o[key] ELSE JNull
ValueAt(v, i) == IF IsArr(v) /\ i + 1 <= Len(v.a) THEN v.a[i + 1] ELSE JNull

\* The loop over datum["metric"].as_object().unwrap(): Fail stands for a
\* failed unwrap.
ShellLabels(datum) ==
    LET m == ValueAtKey(datum, "metric") IN
    IF IsObj(m) /\ \A key \in DOMAIN m.o : IsStr(m.o[key])
    THEN Ok([key \in DOMAIN m.o |-> m.o[key].s])
    ELSE Fail

\* One datum of a "vector" result.  raw_value is a Vec, so raw_value[0] and
\* raw_value[1] must exist.
ShellVectorSample(datum) ==
    LET labels == ShellLabels(datum)
        raw_value == ValueAtKey(datum, "value")
    IN  IF ~labels.ok \/ ~IsArr(raw_value) THEN Fail
        ELSE IF Len(raw_value.a) < 2 THEN Fail
        ELSE IF ~IsNum(raw_value.a[1]) \/ ~IsStr(raw_value.a[2]) THEN Fail
        ELSE Ok([labels |-> labels.v,
                 values |-> <<[timestamp |-> F64(raw_value.a[1].n), value |-> raw_value.a[2].s]>>])

ShellValue(value) ==
    IF IsNum(ValueAt(value, 0)) /\ IsStr(ValueAt(value, 1))
    THEN Ok([timestamp |-> F64(ValueAt(value, 0).n), value |-> ValueAt(value, 1).s])
    ELSE Fail

\* One datum of a "matrix" result.
ShellMatrixSample(datum) ==
    LET labels == ShellLabels(datum)
        raw == ValueAtKey(datum, "values")
    IN  IF ~labels.ok \/ ~IsArr(raw) THEN Fail
        ELSE IF \A i \in 1..Len(raw.a) : ShellValue(raw.a[i]).ok
             THEN Ok([labels |-> labels.v,
                      values |-> [i \in 1..Len(raw.a) |-> ShellValue(raw.a[i]).v]])
             ELSE Fail

\* The "success" arm.
ShellSuccess(response) ==
    IF "data" \notin DOMAIN response THEN Panic
    ELSE IF ~IsObj(response["data"]) THEN Panic
    ELSE LET data_obj == response["data"].o IN
         IF "resultType" \notin DOMAIN data_obj THEN Panic
         ELSE IF ~IsStr(data_obj["resultType"]) THEN Panic
         ELSE IF "result" \notin DOMAIN data_obj THEN Panic
         ELSE IF ~IsArr(data_obj["result"]) THEN Panic
         ELSE LET data_type == data_obj["resultType"].s
                  data == data_obj["result"].a
              IN  IF data_type = "vector" THEN
                      IF \A i \in 1..Len(data) : ShellVectorSample(data[i]).ok
                      THEN [st |-> "Ok", variant |-> "Vector",
                            result |-> [i \in 1..Len(data) |-> ShellVectorSample(data[i]).v]]
                      ELSE Panic
                  ELSE IF data_type = "matrix" THEN
                      IF \A i \in 1..Len(data) : ShellMatrixSample(data[i]).ok
                      THEN [st |-> "Ok", variant |-> "Matrix",
                            result |-> [i \in 1..Len(data) |-> ShellMatrixSample(data[i]).v]]
                      ELSE Panic
                  ELSE Err("UnsupportedResponseDataType", data_type, "")

\* The "error" arm with the kind matched against the known kinds.
ShellErrorKnownKinds(response) ==
    IF "errorType" \notin DOMAIN response \/ "error" \notin DOMAIN response THEN Panic
    ELSE IF ~IsStr(response["errorType"]) \/ ~IsStr(response["error"]) THEN Panic
    ELSE IF response["errorType"].s \notin
                {"bad_data", "timeout", "canceled", "exec", "bad_response", "internal",
                 "unavailable", "not_found", "not_acceptable"}
         THEN Panic
    ELSE Err("ResponseError", response["errorType"].s, response["error"].s)

\* The "error" arm.
ShellError(response) ==
    IF "errorType" \notin DOMAIN response \/ "error" \notin DOMAIN response THEN Panic
    ELSE IF ~IsStr(response["errorType"]) \/ ~IsStr(response["error"]) THEN Panic
    ELSE Err("ResponseError", response["errorType"].s, response["error"].s)

\* parse_response with the status matched without regard to case.
parse_response_any_case(response) ==
    IF "status" \notin DOMAIN response THEN Panic
    ELSE IF ~IsStr(response["status"]) THEN Panic
    ELSE LET status == response["status"].s IN
         IF status \in {"success", "Success"} THEN ShellSuccess(response)
         ELSE IF status \in {"error", "Error"} THEN ShellError(response)
         ELSE Err("UnknownResponseStatus", status, "")

\* parse_response on the HashMap<String, Value> of a JSON object.
parse_response(response) ==
    IF "status" \notin DOMAIN response THEN Panic
    ELSE IF ~IsStr(response["status"]) THEN Panic
    ELSE LET status == response["status"].s IN
         IF status = "success" THEN ShellSuccess(response)
         ELSE IF status = "error" THEN ShellError(response)
         ELSE Err("UnknownResponseStatus", status, "")

-----------------------------------------------------------------------------
(* Client::query and Client::query_range (src/src/client.rs)               *)

\* One caller per element: two callers share the Client.
Calls == {"c1", "c2"}

DefaultBaseUrl == <<"http://127.0.0.1:9090/api/v1">>

\* i64::to_string
RECURSIVE NatToString(_)
NatToString(n) ==
    LET d == <<"0", "1", "2", "3", "4", "5", "6", "7", "8", "9">>[(n % 10) + 1] IN
    IF n < 10 THEN <<d>> ELSE Append(NatToString(n \div 10), d)

to_string(n) == IF n < 0 THEN <<"-">> \o NatToString(-n) ELSE NatToString(n)

\* crate::util::validate_duration: whether s is a non-empty run of
\* <integer><unit> pairs with unit in {y, w, d, h, ms, m, s}; i is the
\* position, digits whether the current pair has a digit so far.
RECURSIVE DurationGrammar(_, _, _)
DurationGrammar(s, i, digits) ==
    IF i > Len(s) THEN ~digits /\ Len(s) > 0
    ELSE IF IsDigit(s[i]) THEN DurationGrammar(s, i + 1, TRUE)
    ELSE IF ~digits \/ s[i] \notin UnitChars THEN FALSE
    ELSE IF s[i] = "m" /\ i + 1 <= Len(s) /\ s[i + 1] = "s"
         THEN DurationGrammar(s, i + 2, FALSE)
         ELSE DurationGrammar(s, i + 1, FALSE)

validate_duration(s) == DurationGrammar(s, 1, FALSE)

Idle ==
    [pc |-> "idle", method |-> "", query |-> <<>>, time |-> None, start |-> 0,
     end |-> 0, step |-> None, timeout |-> None, status |-> 0, body |-> Absent,
     parsed |-> FALSE, outcome |-> Pending]

Returned(call, outcome) == [call EXCEPT !.pc = "done", !.outcome = outcome]

\* Client::query with the timeout pushed and the request sent without the
\* call to validate_duration.
QueryUnvalidated(c, query, time, timeout) ==
    /\ calls[c].pc = "idle"
    /\ LET url == Append(base_url, "/query")
           p1 == <<<<"query", query>>>>
           p2 == IF time.some THEN Append(p1, <<"time", to_string(time.v)>>) ELSE p1
           p3 == IF timeout.some THEN Append(p2, <<"timeout", timeout.v>>) ELSE p2
           me == [Idle EXCEPT !.method = "query", !.query = query, !.time = time,
                              !.timeout = timeout]
       IN  /\ calls' = [calls EXCEPT ![c] = [me EXCEPT !.pc = "sent"]]
           /\ wire' = Append(wire, [call |-> c, url |-> url, params |-> p3])
    /\ UNCHANGED <<raw_str, duration, doc, typed, shell, base_url>>

\* Client::query with "/query" pushed onto the client's base_url itself
\* instead of onto a clone of it.
QuerySharedUrl(c, query, time, timeout) ==
    /\ calls[c].pc = "idle"
    /\ LET url == Append(base_url, "/query")
           p1 == <<<<"query", query>>>>
           p2 == IF time.some THEN Append(p1, <<"time", to_string(time.v)>>) ELSE p1
           p3 == IF timeout.some THEN Append(p2, <<"timeout", timeout.v>>) ELSE p2
           me == [Idle EXCEPT !.method = "query", !.query = query, !.time = time,
                              !.timeout = timeout]
       IN  /\ base_url' = url
           /\ IF timeout.some /\ ~validate_duration(timeout.v)
              THEN /\ calls' = [calls EXCEPT ![c] = Returned(me, Err("InvalidDuration", "timeout", ""))]
                   /\ UNCHANGED wire
              ELSE /\ calls' = [calls EXCEPT ![c] = [me EXCEPT !.pc = "sent"]]
                   /\ wire' = Append(wire, [call |-> c, url |-> url, params |-> p3])
    /\ UNCHANGED <<raw_str, duration, doc, typed, shell>>

\* Client::query with the time parameter pushed whether or not a time is
\* given (an empty value when it is not).
QueryTimeAlways(c, query, time, timeout) ==
    /\ calls[c].pc = "idle"
    /\ LET url == Append(base_url, "/query")
           p1 == <<<<"query", query>>>>
           p2 == Append(p1, <<"time", IF time.some THEN to_string(time.v) ELSE <<>> >>)
           p3 == IF timeout.some THEN Append(p2, <<"timeout", timeout.v>>) ELSE p2
           me == [Idle EXCEPT !.method = "query", !.query = query, !.time = time,
                              !.timeout = timeout]
       IN  IF timeout.some /\ ~validate_duration(timeout.v)
           THEN /\ calls' = [calls EXCEPT ![c] = Returned(me, Err("InvalidDuration", "timeout", ""))]
                /\ UNCHANGED wire
           ELSE /\ calls' = [calls EXCEPT ![c] = [me EXCEPT !.pc = "sent"]]
                /\ wire' = Append(wire, [call |-> c, url |-> url, params |-> p3])
    /\ UNCHANGED <<raw_str, duration, doc, typed, shell, base_url>>

\* Client::query up to send(): the URL and parameters are built, a supplied
\* timeout goes through validate_duration, and the request is handed to the
\* transport.
Query(c, query, time, timeout) ==
    /\ calls[c].pc = "idle"
    /\ LET url == Append(base_url, "/query")
           p1 == <<<<"query", query>>>>
           p2 == IF time.some THEN Append(p1, <<"time", to_string(time.v)>>) ELSE p1
           p3 == IF timeout.some THEN Append(p2, <<"timeout", timeout.v>>) ELSE p2
           me == [Idle EXCEPT !.method = "query", !.query = query, !.time = time,
                              !.timeout = timeout]
       IN  IF timeout.some /\ ~validate_duration(timeout.v)
           THEN /\ calls' = [calls EXCEPT ![c] = Returned(me, Err("InvalidDuration", "timeout", ""))]
                /\ UNCHANGED wire
           ELSE /\ calls' = [calls EXCEPT ![c] = [me EXCEPT !.pc = "sent"]]
                /\ wire' = Append(wire, [call |-> c, url |-> url, params |-> p3])
    /\ UNCHANGED <<raw_str, duration, doc, typed, shell, base_url>>

\* Client::query_range up to send().
QueryRange(c, query, start, end, step, timeout) ==
    /\ calls[c].pc = "idle"
    /\ LET url == Append(base_url, "/query")
           p1 == <<<<"query", query>>, <<"start", to_string(start)>>,
                   <<"end", to_string(end)>>, <<"step", step>>>>
           p2 == IF timeout.some THEN Append(p1, <<"timeout", timeout.v>>) ELSE p1
           me == [Idle EXCEPT !.method = "query_range", !.query = query, !.start = start,
                              !.end = end, !.step = Some(step), !.timeout = timeout]
       IN  IF ~validate_duration(step)
           THEN /\ calls' = [calls EXCEPT ![c] = Returned(me, Err("InvalidDuration", "step", ""))]
                /\ UNCHANGED wire
           ELSE IF timeout.some /\ ~validate_duration(timeout.v)
           THEN /\ calls' = [calls EXCEPT ![c] = Returned(me, Err("InvalidDuration", "timeout", ""))]
                /\ UNCHANGED wire
           ELSE /\ calls' = [calls EXCEPT ![c] = [me EXCEPT !.pc = "sent"]]
                /\ wire' = Append(wire, [call |-> c, url |-> url, params |-> p2])
    /\ UNCHANGED <<raw_str, duration, doc, typed, shell, base_url>>

\* reqwest's Response::error_for_status: an error for a 4xx or 5xx status.
ErrorForStatus(status) == 400 <= status /\ status < 600

\* send().await fails and the request is sent a second time before the
\* error is returned.
SendFailsRetried(c) ==
    /\ calls[c].pc = "sent"
    /\ IF Cardinality({i \in 1..Len(wire) : wire[i].call = c}) < 2
       THEN /\ wire' = Append(wire, wire[CHOOSE i \in 1..Len(wire) : wire[i].call = c])
            /\ UNCHANGED calls
       ELSE /\ calls' = [calls EXCEPT ![c] = Returned(@, Err("Reqwest", "send", ""))]
            /\ UNCHANGED wire
    /\ UNCHANGED <<raw_str, duration, doc, typed, shell, base_url>>

\* send().await fails: map_err(Error::Reqwest)?
SendFails(c) ==
    /\ calls[c].pc = "sent"
    /\ calls' = [calls EXCEPT ![c] = Returned(@, Err("Reqwest", "send", ""))]
    /\ UNCHANGED <<raw_str, duration, doc, typed, shell, base_url, wire>>

\* send().await yields a response with the given status, and
\* error_for_status() is matched on.
SendCompletes(c, status) ==
    /\ calls[c].pc = "sent"
    /\ calls' = [calls EXCEPT ![c] =
                    IF ErrorForStatus(status)
                    THEN Returned([@ EXCEPT !.status = status], Err("Reqwest", "status", ""))
                    ELSE [@ EXCEPT !.pc = "body", !.status = status]]
    /\ UNCHANGED <<raw_str, duration, doc, typed, shell, base_url, wire>>

\* res.json::<HashMap<String, Value>>().await and parse_response: a body
\* that is no JSON object is a reqwest error; parsed records that the body
\* was handed to parse_response.
BodyArrives(c, body) ==
    /\ calls[c].pc = "body"
    /\ calls' = [calls EXCEPT ![c] =
                    IF IsObj(body)
                    THEN Returned([@ EXCEPT !.body = body, !.parsed = TRUE], parse_response(body.o))
                    ELSE Returned([@ EXCEPT !.body = body], Err("Reqwest", "decode", ""))]
    /\ UNCHANGED <<raw_str, duration, doc, typed, shell, base_url, wire>>

-----------------------------------------------------------------------------
(* The inputs                                                              *)

\* Duration strings: every string over DurationAlphabet up to MaxLen
\* characters, and the strings the documentation and tests name.
MaxLen == 4
DurationAlphabet == {"1", "5", "w", "d", "h", "m", "s", "x"}
DurationExamples ==
    { <<"1", "d", "1", "2", "h", "1", "0", "m">>,
      <<"2", "4", "h">>, <<"1", "2", "h">>, <<"1", "0", "m">>, <<"1", "0", "s">>,
      <<"1", "y">>, <<"2", "y", "1", "w">>,
      <<"-", "5", "m">>, <<"1", "h", "1", "h">>, <<"1", "5", "m", "s">>,
      <<"9", "9", "9", "9", "9", "9", "9", "9", "9", "9", "y">>,
      <<"9", "9", "9", "9", "9", "9", "9", "9", "9", "9", "y", "x">>,
      <<"9", "2", "2", "3", "3", "7", "2", "0", "3", "6", "8", "5", "4", "7", "7", "5", "m", "s">>,
      <<"9", "2", "2", "3", "3", "7", "2", "0", "3", "6", "8", "5", "4", "7", "7", "5", "8", "0", "8", "s">> }
DurationInputs ==
    UNION {[1..n -> DurationAlphabet] : n \in 0..MaxLen} \cup DurationExamples

\* Label sets.
Metric1 == MkObj([__name__ |-> JStr("up"), job |-> JStr("prometheus")])
Metric2 == MkObj([__name__ |-> JStr("up"), job |-> JStr("node")])
MetricBad == MkObj([__name__ |-> JNum(1)])

Pair(ts, val) == JArr(<<JNum(ts), JStr(val)>>)

\* The values of data.result.
ResultVals ==
    { Absent, JNull, JStr("x"),
      JArr(<<>>),
      Pair(0, "0.0"),
      Pair(1, "abc"),
      JArr(<<MkObj([metric |-> Metric1, value |-> Pair(1, "1")])>>),
      JArr(<<MkObj([metric |-> Metric1, value |-> Pair(1, "1")]),
             MkObj([metric |-> Metric2, value |-> Pair(1, "2")])>>),
      JArr(<<MkObj([metric |-> Metric1])>>),
      JArr(<<MkObj([metric |-> Metric1, value |-> Pair(1, "abc")])>>),
      JArr(<<MkObj([metric |-> Metric1, value |-> JArr(<<JNum(1), JNum(1)>>)])>>),
      JArr(<<MkObj([metric |-> MetricBad, value |-> Pair(1, "1")])>>),
      JArr(<<MkObj([metric |-> Metric1, values |-> JArr(<<Pair(1, "1"), Pair(2, "3"), Pair(3, "2")>>)]),
             MkObj([metric |-> Metric2, values |-> JArr(<<Pair(1, "0")>>)])>>),
      JArr(<<MkObj([metric |-> Metric1, values |-> JArr(<<JArr(<<JNum(1)>>)>>)])>>),
      Pair(2, "1e+00"),
      JArr(<<JNum(1), JNum(1)>>),
      JArr(<<MkObj([metric |-> Metric2, values |-> JArr(<<Pair(2, "1"), Pair(1, "3"), Pair(2, "1")>>)]),
             MkObj([metric |-> Metric1, values |-> JArr(<<>>)])>>),
      JArr(<<MkObj([metric |-> Metric1, values |-> JArr(<<Pair(1, "1"), Pair(2, "abc"), Pair(3, "2")>>)])>>),
      JArr(<<MkObj([metric |-> Metric1, value |-> Pair(1, "1")]),
             MkObj([metric |-> Metric2, value |-> JArr(<<JNum(1), JNum(2)>>)])>>) }

ResultTypeVals ==
    { Absent, JNull, JStr("vector"), JStr("matrix"), JStr("scalar"), JStr("string"),
      JStr("Vector"), JStr("Scalar") }

TimingsVal ==
    MkObj([evalTotalTime |-> JNum(0), resultSortTime |-> JNum(0),
           queryPreparationTime |-> JNum(0), innerEvalTime |-> JNum(0),
           execQueueTime |-> JNum(0), execTotalTime |-> JNum(0)])

StatsVals ==
    { Absent, JNull,
      MkObj([timings |-> TimingsVal,
             samples |-> MkObj([totalQueryableSamples |-> JNum(3), peakSamples |-> JNum(2)])]),
      MkObj([timings |-> TimingsVal]) }

DataVals ==
    { Absent, JNull } \cup
    { MkObj([resultType |-> t, result |-> r, stats |-> st]) :
        t \in ResultTypeVals, r \in ResultVals, st \in StatsVals }

StatusVals ==
    { Absent, JNull, JStr("success"), JStr("error"), JStr("Success"), JStr("Error"),
      JStr("failure") }

ErrorTypeVals == { Absent, JNull, JStr("bad_data"), JStr("new_kind") }
ErrorVals == { Absent, JStr("boom") }

\* The documents: every combination of the top-level fields.
Docs ==
    { MkObj([status |-> s, data |-> d, errorType |-> et, error |-> e, warnings |-> JArr(<<>>)]) :
        s \in StatusVals, d \in DataVals, et \in ErrorTypeVals, e \in ErrorVals }

\* The arguments of the calls and the answers of the transport.
QueryTexts == { <<"u", "p">> }
Times == { None, Some(1435781451), Some(-1) }
Ranges == { <<1435781430, 1435781460>> }
Steps == { <<"1", "5", "s">>, <<"1", "5">> }
Timeouts == { None, Some(<<"5", "m">>), Some(<<"5">>), Some(<<>>) }
Statuses == { 200, 300, 404, 500 }

ScalarData == MkObj([resultType |-> JStr("scalar"), result |-> Pair(0, "0.0")])
VectorData ==
    MkObj([resultType |-> JStr("vector"),
           result |-> JArr(<<MkObj([metric |-> Metric1, value |-> Pair(1, "1")])>>)])
MatrixData ==
    MkObj([resultType |-> JStr("matrix"),
           result |-> JArr(<<MkObj([metric |-> Metric1,
                                    values |-> JArr(<<Pair(1, "1"), Pair(2, "3")>>)])>>)])

\* The bodies a response carries; the string stands for a body that is not
\* a JSON object.
Bodies ==
    { JStr("<html>"),
      MkObj([status |-> JStr("success"), data |-> VectorData]),
      MkObj([status |-> JStr("success"), data |-> MatrixData]),
      MkObj([status |-> JStr("success"), data |-> ScalarData]),
      MkObj([status |-> JStr("error"), errorType |-> JStr("bad_data"), error |-> JStr("boom")]),
      MkObj([status |-> JStr("error")]),
      MkObj([status |-> JStr("failure")]),
      MkObj([data |-> ScalarData]) }

\* The documents given to the entity decoders.
EmptyObject == JObj(<<>>)
Timestamp1 == JStr("2023-10-05T19:51:25.052982522+02:00")
Timestamp2 == JStr("2018-07-04T20:27:12.60602144+02:00")

MetricTypeTokens ==
    {"counter", "gauge", "histogram", "gaugehistogram", "summary", "info", "stateset", "unknown"}
MetricTypeVals ==
    { Absent, JNull, JStr("Counter"), JStr("GaugeHistogram"), JStr("COUNTER"), JStr("untyped") }
    \cup { JStr(t) : t \in MetricTypeTokens }

TargetMetadataDocs ==
    { MkObj([target |-> tg, type |-> ty, metric |-> m, help |-> h, unit |-> u]) :
        tg \in {Absent, Metric1}, ty \in MetricTypeVals,
        m \in {Absent, JNull, JStr("up"), JStr("")},
        h \in {Absent, JStr("Help text.")}, u \in {Absent, JStr("")} }

WalReplayDocs ==
    { MkObj([min |-> mn, max |-> mx, current |-> cu, state |-> st]) :
        mn \in {Absent, JNum(2)}, mx \in {Absent, JNum(5)}, cu \in {Absent, JNum(0), JNum(40)},
        st \in {Absent, JNull, JStr("waiting"), JStr("in progress"), JStr("done"),
                JStr("Waiting"), JStr("in_progress"), JStr("replaying")} }

SampleStatsDocs ==
    { MkObj([totalQueryableSamplesPerStep |-> ps, totalQueryableSamples |-> tq,
             peakSamples |-> pk]) :
        ps \in {Absent, JNull, JArr(<<>>), JArr(<<JArr(<<JNum(1), JNum(1)>>)>>),
                JArr(<<JArr(<<JNum(1), JNum(1)>>), JArr(<<JNum(2), JNum(3)>>)>>)},
        tq \in {Absent, JNum(0), JNum(4)}, pk \in {Absent, JNum(4)} }

AlertDoc(value) ==
    MkObj([activeAt |-> Timestamp2, annotations |-> EmptyObject, labels |-> Metric1,
           state |-> JStr("firing"), value |-> value])

\* The keys an alerting rule has and a recording rule has not: all missing,
\* or all there with one of the alert lists.
AlertingParts ==
    { [alerts |-> Absent, annotations |-> Absent, duration |-> Absent, keepFiringFor |-> Absent] }
    \cup { [alerts |-> al, annotations |-> EmptyObject, duration |-> JNum(600),
            keepFiringFor |-> JNum(60)] :
             al \in { JArr(<<>>), JArr(<<AlertDoc(JStr("1e+00"))>>),
                      JArr(<<AlertDoc(JNum(1))>>),
                      JArr(<<AlertDoc(JStr("1")), AlertDoc(JStr("abc"))>>) } }

RuleTypeVals ==
    { Absent, JNull, JStr("recording"), JStr("alerting"), JStr("Recording"), JStr("Alerting"),
      JStr("RECORDING"), JStr("rule") }

RuleDocs ==
    { MkObj([type |-> ty, health |-> he, name |-> na, query |-> qu, labels |-> la,
             evaluationTime |-> et, lastEvaluation |-> le,
             alerts |-> ap.alerts, annotations |-> ap.annotations,
             duration |-> ap.duration, keepFiringFor |-> ap.keepFiringFor]) :
        ty \in RuleTypeVals, he \in {Absent, JStr("ok")}, na \in {Absent, JStr("rule1")},
        qu \in {Absent, JStr("up")}, la \in {Absent, JNull, EmptyObject, Metric1},
        et \in {Absent, JNum(0)}, le \in {Absent, Timestamp1, JStr("yesterday")},
        ap \in AlertingParts }

\* The values given to deserialize_f64 alone, and the PromqlResult documents.
F64Docs ==
    { JStr("0.0"), JStr("1"), JStr("1e+00"), JStr("NaN"), JStr("+Inf"), JStr("abc"), JStr(""),
      JNum(1), JNum(0), JNull, JArr(<<JStr("1")>>) }
PromqlResultDocs == { d \in DataVals : IsObj(d) }

EntityDocs ==
    TargetMetadataDocs \cup WalReplayDocs \cup SampleStatsDocs \cup RuleDocs
        \cup F64Docs \cup PromqlResultDocs

\* Build dates: every string made of a year, month, day, hour, minute and
\* second from the sets below, with the separators and tails below, and the
\* strings of the test and of other timestamp formats.
BuildDateSigns == { <<>>, <<"+">>, <<"-">> }
BuildDateYears == { <<"2", "0", "1", "9">>, <<"2", "0", "2", "0">>, <<"2", "1", "9">> }
BuildDateMonths == { <<"1", "1">>, <<"0", "2">>, <<"1", "3">>, <<"0", "0">> }
BuildDateDays == { <<"0", "2">>, <<"2", "9">>, <<"3", "1">>, <<"0", "0">> }
BuildDateSeparators == { <<"-">>, <<"T">>, <<>> }
BuildDateHours == { <<"1", "6">>, <<"2", "4">> }
BuildDateMinutes == { <<"1", "9">>, <<"6", "0">> }
BuildDateSeconds == { <<"5", "1">>, <<"6", "0">> }
BuildDateColons == { <<":">>, <<"-">> }
BuildDateTails == { <<>>, <<"Z">>, <<"+", "0", "1", ":", "0", "0">> }
BuildDateExamples ==
    { <<>>,
      <<"2", "0", "1", "9", "1", "1", "0", "2", "-", "1", "6", ":", "1", "9">>,
      <<"2", "0", "1", "9", "-", "1", "1", "-", "0", "2", "T", "1", "6", ":", "1", "9", ":",
        "5", "1", "+", "0", "1", ":", "0", "0">>,
      <<"2", "0", "1", "9", "1", "1", "0", "2", "-", "1", "6", ":", "1", "9", ":", "5", "9">> }
BuildDateStrings ==
    { sg \o y \o mo \o d \o sep \o h \o c \o mi \o c \o se \o tl :
        sg \in BuildDateSigns, y \in BuildDateYears, mo \in BuildDateMonths,
        d \in BuildDateDays, sep \in BuildDateSeparators, h \in BuildDateHours,
        c \in BuildDateColons, mi \in BuildDateMinutes, se \in BuildDateSeconds,
        tl \in BuildDateTails } \cup BuildDateExamples
BuildDateVals == { JStr(s) : s \in BuildDateStrings } \cup { JNull, JNum(20191102) }

\* The document of tests::test_buildinformation_deserialization with the
\* build date under either name, or left out.
BuildInformationDocs ==
    { MkObj([version |-> JStr("2.13.1"),
             revision |-> JStr("cb7cbad5f9a2823a622aaa668833ca04f50a0ea7"),
             branch |-> JStr("master"), buildUser |-> JStr("julius@desktop"),
             buildDate |-> d1, build_date |-> d2, goVersion |-> JStr("go1.13.1")]) :
        d1 \in BuildDateVals \cup {Absent}, d2 \in {Absent, JStr(<<"2", "0", "1", "9", "1", "1", "0", "2", "-", "1", "6", ":", "1", "9", ":", "5", "1">>)} }

-----------------------------------------------------------------------------
(* The specifications                                                      *)

NoCalls == [c \in Calls |-> Idle]

\* The query shell: two callers on one Client.
Init ==
    /\ raw_str = <<>>
    /\ duration = Pending
    /\ doc = JNull
    /\ typed = Pending
    /\ shell = Pending
    /\ base_url = DefaultBaseUrl
    /\ calls = NoCalls
    /\ wire = <<>>

Next ==
    \/ \E c \in Calls, q \in QueryTexts, t \in Times, to \in Timeouts : Query(c, q, t, to)
    \/ \E c \in Calls, q \in QueryTexts, r \in Ranges, st \in Steps, to \in Timeouts :
           QueryRange(c, q, r[1], r[2], st, to)
    \/ \E c \in Calls : SendFails(c)
    \/ \E c \in Calls, status \in Statuses : SendCompletes(c, status)
    \/ \E c \in Calls, body \in Bodies : BodyArrives(c, body)

Spec == Init /\ [][Next]_vars

\* The duration deserializer applied to one input.
InitDuration ==
    /\ raw_str \in DurationInputs
    /\ duration = Pending
    /\ doc = JNull
    /\ typed = Pending
    /\ shell = Pending
    /\ base_url = DefaultBaseUrl
    /\ calls = NoCalls
    /\ wire = <<>>

DeserializeDuration ==
    /\ duration = Pending
    /\ duration' \in deserialize_prometheus_duration(raw_str)
    /\ UNCHANGED <<raw_str, doc, typed, shell, base_url, calls, wire>>

NextDuration == DeserializeDuration

SpecDuration == InitDuration /\ [][NextDuration]_vars

\* The two decoders applied to one document.
InitDecode ==
    /\ raw_str = <<>>
    /\ duration = Pending
    /\ doc \in Docs
    /\ typed = Pending
    /\ shell = Pending
    /\ base_url = DefaultBaseUrl
    /\ calls = NoCalls
    /\ wire = <<>>

\* serde_json::from_value::<ApiResponse<PromqlResult>>(doc)
DecodeTyped ==
    /\ typed = Pending
    /\ typed' = DecodeApiResponse(doc)
    /\ UNCHANGED <<raw_str, duration, doc, shell, base_url, calls, wire>>

\* parse_response(doc)
ParseResponse ==
    /\ shell = Pending
    /\ shell' = parse_response(doc.o)
    /\ UNCHANGED <<raw_str, duration, doc, typed, base_url, calls, wire>>

NextDecode == DecodeTyped \/ ParseResponse

SpecDecode == InitDecode /\ [][NextDecode]_vars

\* The entity decoders applied to one document: serde_json::from_value::<T>
\* for T one of TargetMetadata, WalReplayStatistics, Samples and Rule.
InitEntities ==
    /\ raw_str = <<>>
    /\ duration = Pending
    /\ doc \in EntityDocs
    /\ typed = Pending
    /\ shell = Pending
    /\ base_url = DefaultBaseUrl
    /\ calls = NoCalls
    /\ wire = <<>>

\* What from_value::<T> returns, T named by as.
Decoded(as, r) ==
    IF r.ok THEN [st |-> "ok", as |-> as, v |-> r.v] ELSE [st |-> "err", as |-> as]

FromValueTargetMetadata ==
    /\ typed = Pending
    /\ typed' = Decoded("TargetMetadata", DecodeTargetMetadata(doc))
    /\ UNCHANGED <<raw_str, duration, doc, shell, base_url, calls, wire>>

FromValueWalReplayStatistics ==
    /\ typed = Pending
    /\ typed' = Decoded("WalReplayStatistics", DecodeWalReplayStatistics(doc))
    /\ UNCHANGED <<raw_str, duration, doc, shell, base_url, calls, wire>>

FromValueSamples ==
    /\ typed = Pending
    /\ typed' = Decoded("Samples", DecodeSampleStats(doc))
    /\ UNCHANGED <<raw_str, duration, doc, shell, base_url, calls, wire>>

FromValueRule ==
    /\ typed = Pending
    /\ typed' = Decoded("Rule", DecodeRule(doc))
    /\ UNCHANGED <<raw_str, duration, doc, shell, base_url, calls, wire>>

FromValuePromqlResult ==
    /\ typed = Pending
    /\ typed' = Decoded("PromqlResult", DecodePromqlResult(doc))
    /\ UNCHANGED <<raw_str, duration, doc, shell, base_url, calls, wire>>

\* de::deserialize_f64 on the document itself; the error keeps what it names.
DeserializeF64 ==
    /\ typed = Pending
    /\ typed' = LET r == deserialize_f64(doc) IN
                IF r.ok THEN [st |-> "ok", as |-> "f64", v |-> r.v]
                ELSE [st |-> "err", as |-> "f64", unexpected |-> r.unexpected]
    /\ UNCHANGED <<raw_str, duration, doc, shell, base_url, calls, wire>>

NextEntities ==
    \/ FromValuePromqlResult
    \/ DeserializeF64
    \/ FromValueTargetMetadata
    \/ FromValueWalReplayStatistics
    \/ FromValueSamples
    \/ FromValueRule

SpecEntities == InitEntities /\ [][NextEntities]_vars

\* The build date deserializer and the BuildInformation decoder applied to
\* one document.
InitBuildInformation ==
    /\ raw_str = <<>>
    /\ duration = Pending
    /\ doc \in BuildDateVals \cup BuildInformationDocs
    /\ typed = Pending
    /\ shell = Pending
    /\ base_url = DefaultBaseUrl
    /\ calls = NoCalls
    /\ wire = <<>>

\* de::deserialize_build_info_date on the document itself; the error keeps
\* what it names.
DeserializeBuildInfoDate ==
    /\ typed = Pending
    /\ typed' = [as |-> "PrimitiveDateTime", r |-> deserialize_build_info_date(doc)]
    /\ UNCHANGED <<raw_str, duration, doc, shell, base_url, calls, wire>>

FromValueBuildInformation ==
    /\ typed = Pending
    /\ typed' = [as |-> "BuildInformation", r |-> DecodeBuildInformation(doc)]
    /\ UNCHANGED <<raw_str, duration, doc, shell, base_url, calls, wire>>

NextBuildInformation ==
    \/ DeserializeBuildInfoDate
    \/ FromValueBuildInformation

SpecBuildInformation == InitBuildInformation /\ [][NextBuildInformation]_vars

-----------------------------------------------------------------------------
(* The claims                                                              *)

\* The top-level string field of the document, or "" when it is missing or
\* not a string.
DocString(key) ==
    IF IsObj(doc) /\ key \in DOMAIN doc.o /\ IsStr(doc.o[key]) THEN doc.o[key].s ELSE ""
DocHas(key) == IsObj(doc) /\ key \in DOMAIN doc.o

\* data.resultType of the document, or "" when there is none.
DocResultType ==
    IF DocHas("data") /\ IsObj(doc.o["data"]) /\ "resultType" \in DOMAIN doc.o["data"].o
       /\ IsStr(doc.o["data"].o["resultType"])
    THEN doc.o["data"].o["resultType"].s ELSE ""

\* raw_str is a non-empty run of digits followed by 'm' and 's'.
IsMsInput ==
    /\ Len(raw_str) >= 3
    /\ raw_str[Len(raw_str) - 1] = "m"
    /\ raw_str[Len(raw_str)] = "s"
    /\ \A i \in 1..(Len(raw_str) - 2) : IsDigit(raw_str[i])

\* C1: for every n, the input "<n>ms" yields a duration of exactly n
\* milliseconds.
C1_MsIsMilliseconds ==
    (IsMsInput /\ duration # Pending) =>
        duration = [st |-> "ok", ms |-> ParseI64(SubSeq(raw_str, 1, Len(raw_str) - 2)).v]

\* C2: ApiResponse decodes to Success only for the status "success", to
\* Error only for the status "error", and fails for every other status
\* string.
C2_StatusIsCaseSensitive ==
    (typed # Pending /\ DocString("status") # "") =>
        /\ typed.st = "Success" => DocString("status") = "success"
        /\ typed.st = "Error" => DocString("status") = "error"
        /\ DocString("status") \notin {"success", "error"} => typed.st = "err"

\* C3: whenever parse_response returns for a status "success" document, it
\* returns the unsupported-result-type error exactly when resultType is
\* outside {vector, matrix, scalar}, and the error names the tag.
C3_UnsupportedOnlyOutsideTheThree ==
    (shell # Pending /\ shell.st # "panic" /\ DocString("status") = "success") =>
        /\ (shell.st = "Err" /\ shell.err = "UnsupportedResponseDataType")
               <=> DocResultType \notin {"vector", "matrix", "scalar"}
        /\ (shell.st = "Err" /\ shell.err = "UnsupportedResponseDataType")
               => shell.a = DocResultType

\* C4: for every JSON object, parse_response returns Ok(response) or
\* Err(error); it never panics.
C4_ParseResponseReturns == shell # Pending => shell.st \in {"Ok", "Err"}

\* C5: the empty string is rejected with an error.
C5_EmptyIsRejected == (raw_str = <<>> /\ duration # Pending) => duration.st = "err"

\* C6: an input that ends in a digit run with no unit after it fails.
C6_DanglingDigitsFail ==
    (duration # Pending /\ Len(raw_str) > 0 /\ IsDigit(raw_str[Len(raw_str)])) =>
        duration.st = "err"

\* The duration parameters a call was given are all well-formed.
DurationsValid(call) ==
    /\ call.timeout.some => validate_duration(call.timeout.v)
    /\ call.step.some => validate_duration(call.step.v)
RequestsOf(c) == {i \in 1..Len(wire) : wire[i].call = c}

\* C7: every request on the wire comes from a call whose supplied duration
\* parameters all passed validation, and a call with a malformed duration
\* parameter has returned the validation error without any request sent.
C7_ValidatedBeforeSend ==
    \A c \in Calls :
        /\ RequestsOf(c) # {} => DurationsValid(calls[c])
        /\ (calls[c].pc # "idle" /\ ~DurationsValid(calls[c])) =>
               /\ calls[c].pc = "done"
               /\ calls[c].outcome.st = "Err"
               /\ calls[c].outcome.err = "InvalidDuration"
               /\ RequestsOf(c) = {}

\* One call was refused for its malformed timeout while the other call's
\* request, carrying a timeout, is on the wire.
C7_Witness ==
    \E c, d \in Calls :
        /\ calls[c].pc = "done" /\ calls[c].timeout.some /\ ~validate_duration(calls[c].timeout.v)
        /\ calls[d].pc = "sent" /\ calls[d].timeout.some /\ RequestsOf(d) # {}

Is2xx(status) == 200 <= status /\ status < 300
BodyStatus(body) ==
    IF IsObj(body) /\ "status" \in DOMAIN body.o /\ IsStr(body.o["status"])
    THEN body.o["status"].s ELSE ""

\* C8: of the calls that return, one that got a non-2xx status returns
\* Error::Reqwest and its body never reaches parse_response; one that got a
\* 2xx response whose body has status "error" returns Error::ResponseError;
\* and neither error is returned in the other's place.
C8_TransportAndProtocolDistinct ==
    \A c \in Calls :
        (calls[c].pc = "done" /\ calls[c].outcome.st # "panic") =>
            /\ (calls[c].status # 0 /\ ~Is2xx(calls[c].status)) =>
                   /\ calls[c].outcome.st = "Err" /\ calls[c].outcome.err = "Reqwest"
                   /\ ~calls[c].parsed
            /\ (Is2xx(calls[c].status) /\ BodyStatus(calls[c].body) = "error") =>
                   calls[c].outcome.st = "Err" /\ calls[c].outcome.err = "ResponseError"
            /\ (calls[c].outcome.st = "Err" /\ calls[c].outcome.err = "ResponseError") =>
                   Is2xx(calls[c].status) /\ BodyStatus(calls[c].body) = "error"

\* C9: Data decodes to Vector, Matrix or Scalar only for the resultType
\* "vector", "matrix" or "scalar" respectively; every other resultType
\* string is a decode failure.
C9_ResultTypeIsExact ==
    (typed # Pending /\ typed.st = "Success" /\ DocString("status") = "success") =>
        \/ typed.data.variant = "Vector" /\ DocResultType = "vector"
        \/ typed.data.variant = "Matrix" /\ DocResultType = "matrix"
        \/ typed.data.variant = "Scalar" /\ DocResultType = "scalar"

\* C10: a status "success" document without data fails to decode whatever
\* else it holds, and so does a status "error" document without both
\* errorType and error; Success is only decoded from a document with data,
\* Error only from one with errorType and error.
C10_ShapesNotMixed ==
    typed # Pending =>
        /\ (DocString("status") = "success" /\ ~DocHas("data")) => typed.st = "err"
        /\ (DocString("status") = "error" /\ ~(DocHas("errorType") /\ DocHas("error")))
               => typed.st = "err"
        /\ typed.st = "Success" => DocHas("data")
        /\ typed.st = "Error" => DocHas("errorType") /\ DocHas("error")

\* A status "success" document that has errorType and error and no data has
\* been decoded.
C10_Witness ==
    /\ typed # Pending
    /\ DocString("status") = "success"
    /\ ~DocHas("data")
    /\ DocString("errorType") = "bad_data"
    /\ DocString("error") = "boom"


\* The data object of the document, and the parts of it.
DocDataIsObj == DocHas("data") /\ IsObj(doc.o["data"])
DocData == doc.o["data"].o
DocResult == DocData["result"]
IsPair(v) == IsArr(v) /\ Len(v.a) = 2 /\ IsNum(v.a[1]) /\ IsStr(v.a[2])

\* The data object carries a stats value (a key with a value other than
\* null).
DocHasStats == DocDataIsObj /\ "stats" \in DOMAIN DocData /\ DocData["stats"] # JNull

\* The stats of the document, when it has any, are the well-formed ones.
DocStatsWellFormed == DocHasStats => DecodeStats(DocData["stats"]).ok

\* C11: a document with status "error", errorType "bad_data" and an error
\* message decodes to the Error variant carrying kind bad_data and the
\* message, whatever data (null included) and other top-level keys it
\* holds; it never decodes to Success.
C11_BadDataDecodesToError ==
    (/\ typed # Pending
     /\ DocString("status") = "error"
     /\ DocString("errorType") = "bad_data"
     /\ DocHas("error") /\ IsStr(doc.o["error"])) =>
        typed = [st |-> "Error", kind |-> "bad_data", message |-> doc.o["error"].s]

\* The document of test_api_error_deserialization has been decoded: status
\* "error", data null, errorType "bad_data", an error message and warnings.
C11_Witness ==
    /\ typed # Pending
    /\ typed.st = "Error"
    /\ DocString("status") = "error"
    /\ DocString("errorType") = "bad_data"
    /\ DocHas("data") /\ doc.o["data"] = JNull
    /\ DocHas("warnings")

\* C12: a status "success" document whose data has resultType "scalar" and
\* the result [ts, "val"], val a float literal, decodes to Success with
\* Data::Scalar holding the sample {timestamp: ts, value: val as a float};
\* the result [0, "0.0"] gives {timestamp 0.0, value 0.0}.
C12_ScalarDecodesToSample ==
    (/\ typed # Pending
     /\ DocString("status") = "success"
     /\ DocResultType = "scalar"
     /\ "result" \in DOMAIN DocData /\ IsPair(DocResult)
     /\ F64FromStr(DocResult.a[2].s).ok
     /\ DocStatsWellFormed) =>
        /\ typed.st = "Success"
        /\ typed.data.variant = "Scalar"
        /\ Len(typed.data.series) = 1
        /\ typed.data.series[1].samples =
               <<[timestamp |-> F64(DocResult.a[1].n),
                  value |-> F64FromStr(DocResult.a[2].s).v]>>
        /\ DocResult = Pair(0, "0.0") =>
               typed.data.series[1].samples = <<[timestamp |-> F64(0), value |-> F64(0)]>>

\* The document of test_api_success_deserialization has been decoded to
\* Success.
C12_Witness ==
    /\ typed # Pending
    /\ typed.st = "Success"
    /\ DocString("status") = "success"
    /\ DocResultType = "scalar"
    /\ DocResult = Pair(0, "0.0")
    /\ DocHas("warnings")

\* The samples array of an input series, under the key it is given by.
InputValues(series) ==
    IF "values" \in DOMAIN series.o THEN series.o["values"].a ELSE series.o["samples"].a

\* The label map holds exactly the pairs of the metric object.
LabelsMatch(labels, series) ==
    /\ DOMAIN labels = DOMAIN series.o["metric"].o
    /\ \A key \in DOMAIN labels : labels[key] = series.o["metric"].o[key].s

\* C13: a decoded matrix keeps the input: one RangeVector per input series
\* in input order, as many samples as the input values array in the same
\* order, each sample with the timestamp and the value of the input pair at
\* its index, and a label map with exactly the pairs of the metric object.
\* parse_response keeps the same, with the value as the input string.
C13_MatrixKeepsInput ==
    /\ (typed # Pending /\ typed.st = "Success" /\ typed.data.variant = "Matrix") =>
           /\ Len(typed.data.series) = Len(DocResult.a)
           /\ \A i \in 1..Len(DocResult.a) :
                  /\ LabelsMatch(typed.data.series[i].metric, DocResult.a[i])
                  /\ Len(typed.data.series[i].samples) = Len(InputValues(DocResult.a[i]))
                  /\ \A j \in 1..Len(InputValues(DocResult.a[i])) :
                         typed.data.series[i].samples[j] =
                             [timestamp |-> F64(InputValues(DocResult.a[i])[j].a[1].n),
                              value |-> F64FromStr(InputValues(DocResult.a[i])[j].a[2].s).v]
    /\ (shell # Pending /\ shell.st = "Ok" /\ shell.variant = "Matrix") =>
           /\ Len(shell.result) = Len(DocResult.a)
           /\ \A i \in 1..Len(DocResult.a) :
                  /\ LabelsMatch(shell.result[i].labels, DocResult.a[i])
                  /\ Len(shell.result[i].values) = Len(InputValues(DocResult.a[i]))
                  /\ \A j \in 1..Len(InputValues(DocResult.a[i])) :
                         shell.result[i].values[j] =
                             [timestamp |-> F64(InputValues(DocResult.a[i])[j].a[1].n),
                              value |-> InputValues(DocResult.a[i])[j].a[2].s]

\* A matrix of two series has been decoded by both decoders, the first
\* series with three samples whose timestamps are neither sorted nor
\* distinct.
C13_Witness ==
    /\ typed # Pending /\ typed.st = "Success" /\ typed.data.variant = "Matrix"
    /\ shell # Pending /\ shell.st = "Ok" /\ shell.variant = "Matrix"
    /\ Len(DocResult.a) = 2
    /\ InputValues(DocResult.a[1]) = <<Pair(2, "1"), Pair(1, "3"), Pair(2, "1")>>

\* The document with the stats key removed from its data object.
DocWithoutStats ==
    JObj([doc.o EXCEPT !["data"] =
              JObj([key \in DOMAIN DocData \ {"stats"} |-> DocData[key]])])

\* C14: a decoded PromqlResult has stats() None exactly when the document
\* has no stats (no key, or null) and Some otherwise; the Data variant and
\* the decoded series are those the same document decodes to without its
\* stats; and without stats the decode succeeds whenever resultType and
\* result decode.
C14_StatsAreIndependent ==
    (typed # Pending /\ DocString("status") = "success" /\ DocDataIsObj) =>
        /\ typed.st = "Success" =>
               /\ typed.stats.some <=> DocHasStats
               /\ DecodeApiResponse(DocWithoutStats).st = "Success"
               /\ DecodeApiResponse(DocWithoutStats).data = typed.data
               /\ DecodeApiResponse(DocWithoutStats).stats = None
        /\ ~DocHasStats => (typed.st = "Success" <=> DecodeData(DocData).ok)

\* A matrix document with stats has been decoded, stats() being Some.
C14_Witness ==
    /\ typed # Pending /\ typed.st = "Success"
    /\ typed.data.variant = "Matrix" /\ Len(typed.data.series) = 2
    /\ DocHasStats /\ typed.stats.some


\* The document has the key with a value other than null.
DocValued(key) == DocHas(key) /\ doc.o[key] # JNull
DocWithout(key) == JObj([k \in DOMAIN doc.o \ {key} |-> doc.o[k]])

\* The rule a decoded Rule holds is a recording (alerting) rule.
IsRecording == typed.st = "ok" /\ typed.as = "Rule" /\ typed.v.variant = "Recording"
IsAlerting == typed.st = "ok" /\ typed.as = "Rule" /\ typed.v.variant = "Alerting"

\* C15 as stated: an optional field decodes to None when its key is missing
\* and to Some when its key is present.
C15_SomeWheneverKeyPresent ==
    (typed # Pending /\ typed.st = "ok") =>
        /\ typed.as = "TargetMetadata" => (typed.v.metric.some <=> DocHas("metric"))
        /\ typed.as = "WalReplayStatistics" => (typed.v.state.some <=> DocHas("state"))
        /\ typed.as = "Samples" =>
               (typed.v.total_queryable_samples_per_step.some
                    <=> DocHas("totalQueryableSamplesPerStep"))
        /\ IsRecording => (typed.v.rule.labels.some <=> DocHas("labels"))

\* C15: each of the four optional fields decodes to None when its key is
\* missing or its value is null and to Some of the given value otherwise
\* (an empty list or map stays Some), the document without the key decodes
\* to the same value with None in that field, and no document that lacks a
\* key of a non-optional field decodes.
C15_OptionalFieldsExplicit ==
    (typed # Pending /\ typed.st = "ok") =>
        /\ typed.as = "TargetMetadata" =>
               /\ {"target", "type", "help", "unit"} \subseteq DOMAIN doc.o
               /\ typed.v.metric =
                      IF DocValued("metric") THEN Some(doc.o["metric"].s) ELSE None
               /\ DecodeTargetMetadata(DocWithout("metric")) =
                      Ok([typed.v EXCEPT !.metric = None])
        /\ typed.as = "WalReplayStatistics" =>
               /\ {"min", "max", "current"} \subseteq DOMAIN doc.o
               /\ typed.v.state.some <=> DocValued("state")
               /\ DecodeWalReplayStatistics(DocWithout("state")) =
                      Ok([typed.v EXCEPT !.state = None])
        /\ typed.as = "Samples" =>
               /\ {"totalQueryableSamples", "peakSamples"} \subseteq DOMAIN doc.o
               /\ typed.v.total_queryable_samples_per_step.some
                      <=> DocValued("totalQueryableSamplesPerStep")
               /\ typed.v.total_queryable_samples_per_step.some =>
                      Len(typed.v.total_queryable_samples_per_step.v)
                          = Len(doc.o["totalQueryableSamplesPerStep"].a)
               /\ DecodeSampleStats(DocWithout("totalQueryableSamplesPerStep")) =
                      Ok([typed.v EXCEPT !.total_queryable_samples_per_step = None])
        /\ IsRecording =>
               /\ {"health", "name", "query", "evaluationTime", "lastEvaluation"}
                      \subseteq DOMAIN doc.o
               /\ typed.v.rule.labels.some <=> DocValued("labels")
               /\ typed.v.rule.labels.some =>
                      DOMAIN typed.v.rule.labels.v = DOMAIN doc.o["labels"].o
               /\ DecodeRule(DocWithout("labels")) =
                      Ok([typed.v EXCEPT !.rule.labels = None])
        /\ IsAlerting =>
               {"alerts", "annotations", "duration", "health", "labels", "name", "query",
                "evaluationTime", "lastEvaluation", "keepFiringFor"} \subseteq DOMAIN doc.o

\* The recording rule of test_rule_group_deserialization, which has no
\* labels key, has been decoded with labels None.
C15_Witness ==
    /\ typed # Pending /\ IsRecording
    /\ ~DocHas("labels")
    /\ typed.v.rule.labels = None


\* The tokens of the documents that are decimal or scientific float
\* literals, and their values.
DecimalLiterals == {"0", "0.0", "1", "2", "3", "1e+00"}
DecimalValue(token) ==
    CASE token \in {"0", "0.0"} -> F64(0)
      [] token \in {"1", "1e+00"} -> F64(1)
      [] token = "2" -> F64(2)
      [] token = "3" -> F64(3)
\* The tokens f64::from_str reads as a value that is not finite.
NonFiniteLiterals == {"NaN", "+Inf"}

\* The sample values of a PromqlResult document that has been decoded, and
\* the values of the alerts of an alerting rule.
SeriesValues(series) ==
    IF \E key \in {"values", "samples"} : key \in DOMAIN series.o
    THEN {InputValues(series)[j].a[2] : j \in 1..Len(InputValues(series))}
    ELSE {(IF "value" \in DOMAIN series.o THEN series.o["value"] ELSE series.o["sample"]).a[2]}
DocSampleValues ==
    IF IsArr(doc.o["result"]) /\ typed.v.data.variant = "Scalar" THEN {doc.o["result"].a[2]}
    ELSE UNION {SeriesValues(doc.o["result"].a[i]) : i \in 1..Len(doc.o["result"].a)}
DocAlertValues == {doc.o["alerts"].a[i].o["value"] : i \in 1..Len(doc.o["alerts"].a)}

\* C16 as stated: a value is accepted only as a JSON string holding a
\* decimal or scientific float literal.
C16_OnlyDecimalLiterals ==
    (typed # Pending /\ typed.as = "f64" /\ typed.st = "ok") =>
        IsStr(doc) /\ doc.s \in DecimalLiterals

\* C16: deserialize_f64 accepts exactly the JSON strings f64::from_str
\* reads, which are the decimal and scientific literals ("1" gives 1.0,
\* "0.0" gives 0.0, "1e+00" gives 1.0) and the non-finite tokens such as
\* "NaN" and "+Inf"; any other string and any JSON number is an error that
\* names the string or the number; and a PromqlResult or an alerting rule
\* decodes only if every sample or alert value in it is accepted, so none
\* is dropped or defaulted.
C16_FloatsOnlyFromStrings ==
    typed # Pending =>
        /\ typed.as = "f64" =>
               /\ typed.st = "ok" <=>
                      IsStr(doc) /\ doc.s \in DecimalLiterals \cup NonFiniteLiterals
               /\ (IsStr(doc) /\ doc.s \in DecimalLiterals) => typed.v = DecimalValue(doc.s)
               /\ (typed.st = "err" /\ (IsStr(doc) \/ IsNum(doc))) => typed.unexpected = doc
        /\ (typed.as = "PromqlResult" /\ typed.st = "ok") =>
               /\ \A v \in DocSampleValues :
                      IsStr(v) /\ v.s \in DecimalLiterals \cup NonFiniteLiterals
               /\ typed.v.data.variant = "Matrix" =>
                      \A i \in 1..Len(doc.o["result"].a) :
                          Len(typed.v.data.series[i].samples)
                              = Len(InputValues(doc.o["result"].a[i]))
        /\ IsAlerting =>
               /\ \A v \in DocAlertValues :
                      IsStr(v) /\ v.s \in DecimalLiterals \cup NonFiniteLiterals
               /\ Len(typed.v.rule.alerts) = Len(doc.o["alerts"].a)

\* A JSON number has been refused by deserialize_f64 with an error that
\* names it.
C16_Witness ==
    /\ typed # Pending /\ typed.as = "f64" /\ typed.st = "err"
    /\ doc = JNum(1)
    /\ typed.unexpected = JNum(1)


\* C17: MetricType decodes only from the tokens counter, gauge, histogram,
\* gaugehistogram, summary, info, stateset and unknown, and the type of a
\* Rule only from recording and alerting; a document with any other token,
\* a known one in another capitalisation included, does not decode.
C17_EnumsRejectOtherTokens ==
    (typed # Pending /\ typed.st = "ok") =>
        /\ typed.as = "TargetMetadata" => DocString("type") \in MetricTypeTokens
        /\ typed.as = "Rule" => DocString("type") \in {"recording", "alerting"}


\* The factors of one unit in milliseconds: s = 1000 ms, m = 60 s, h = 60 m,
\* d = 24 h, w = 7 d, y = 365 d.
UnitMs(unit) ==
    CASE unit = "s" -> <<1000>>
      [] unit = "m" -> <<1000, 60>>
      [] unit = "h" -> <<1000, 60, 60>>
      [] unit = "d" -> <<1000, 60, 60, 24>>
      [] unit = "w" -> <<1000, 60, 60, 24, 7>>
      [] unit = "y" -> <<1000, 60, 60, 24, 365>>

\* The sum of integer times unit over a string of <integer><unit> pairs
\* with the one-character units: valid says that s is such a string, ms is
\* the sum, range that every integer, product and partial sum fits an i64.
RECURSIVE PairSum(_, _, _, _, _)
PairSum(s, i, digits, ms, range) ==
    IF i > Len(s) THEN [valid |-> digits = <<>> /\ Len(s) > 0, ms |-> ms, range |-> range]
    ELSE IF IsDigit(s[i]) THEN PairSum(s, i + 1, Append(digits, s[i]), ms, range)
    ELSE IF digits = <<>> \/ s[i] \notin UnitChars
         THEN [valid |-> FALSE, ms |-> ms, range |-> range]
    ELSE LET n == ParseDigits(digits, I64(0))
             p == I64MulChain(n.v, UnitMs(s[i]))
             a == I64Add(ms, p.v)
         IN  PairSum(s, i + 1, <<>>, a.v, range /\ n.ok /\ ~p.ovf /\ ~a.ovf)

Pairs == PairSum(raw_str, 1, <<>>, I64(0), TRUE)

\* C18: for an input of <integer><unit> pairs with units among y, w, d, h,
\* m, s whose total is within the i64 range, the result is the sum over the
\* pairs of integer times the unit's milliseconds; "1h" is 3,600,000 ms,
\* "1d" 86,400,000 ms, "1m" 60,000 ms and "10s" 10,000 ms.
C18_SumOfPairs ==
    (duration # Pending /\ Pairs.valid /\ Pairs.range) =>
        /\ duration = [st |-> "ok", ms |-> Pairs.ms]
        /\ raw_str = <<"1", "h">> => duration.ms = I64(3600000)
        /\ raw_str = <<"1", "d">> => duration.ms = I64(86400000)
        /\ raw_str = <<"1", "m">> => duration.ms = I64(60000)
        /\ raw_str = <<"1", "0", "s">> => duration.ms = I64(10000)

\* "2y1w" has been parsed.
C18_Witness ==
    /\ duration # Pending /\ duration.st = "ok"
    /\ raw_str = <<"2", "y", "1", "w">>

\* The result of a call on an input that does not overflow.
InRange(s) == ~DurationLoop(s, 1, <<>>, I64(0), FALSE).ovf
Parse(s) == CHOOSE r \in deserialize_prometheus_duration(s) : TRUE

\* C19: for valid duration strings a and b whose concatenation is within
\* range, parse(a ++ b) = parse(a) + parse(b) = parse(b ++ a); and
\* parse("1d12h10m") = parse("24h") + parse("12h") + parse("10m").
C19_AdditiveOverConcatenation ==
    (duration # Pending /\ validate_duration(raw_str) /\ InRange(raw_str)) =>
        /\ \A i \in 1..(Len(raw_str) - 1) :
               LET a == SubSeq(raw_str, 1, i)
                   b == SubSeq(raw_str, i + 1, Len(raw_str))
               IN  (validate_duration(a) /\ validate_duration(b)) =>
                       /\ Parse(a).st = "ok" /\ Parse(b).st = "ok"
                       /\ duration =
                              [st |-> "ok", ms |-> I64Add(Parse(a).ms, Parse(b).ms).v]
                       /\ Parse(b \o a) = duration
        /\ raw_str = <<"1", "d", "1", "2", "h", "1", "0", "m">> =>
               duration.ms = I64Add(I64Add(Parse(<<"2", "4", "h">>).ms,
                                           Parse(<<"1", "2", "h">>).ms).v,
                                    Parse(<<"1", "0", "m">>).ms).v

\* "1h1h" has been parsed to two hours.
C19_Witness ==
    /\ duration # Pending
    /\ raw_str = <<"1", "h", "1", "h">>
    /\ duration = [st |-> "ok", ms |-> I64(7200000)]

\* The character at i is the 's' of an "ms" that follows a digit.
IsMsTail(s, i) == s[i] = "s" /\ i >= 3 /\ s[i - 1] = "m" /\ IsDigit(s[i - 2])

\* s has a character that is neither a digit nor a unit, or a unit character
\* with no digit before it.
HasGrammarError(s) ==
    \E i \in 1..Len(s) :
        \/ ~IsDigit(s[i]) /\ s[i] \notin UnitChars
        \/ /\ s[i] \in UnitChars
           /\ i = 1 \/ ~IsDigit(s[i - 1])
           /\ ~IsMsTail(s, i)

\* C20: an input within range that has an unknown unit character ("5x") or
\* a unit character not preceded by a digit ("h", "1hh", "-5m") fails with
\* an error; no duration is returned.
C20_BadUnitsFail ==
    (duration # Pending /\ HasGrammarError(raw_str) /\ InRange(raw_str)) =>
        duration = [st |-> "err"]

\* "-5m" has been refused.
C20_Witness ==
    /\ duration # Pending /\ duration.st = "err"
    /\ raw_str = <<"-", "5", "m">>


\* C21: parse_response on a document whose status is a string other than
\* "success" and "error" returns the unknown-status error carrying that
\* string, whatever else the document holds, and nothing decoded from data.
C21_UnknownStatusIsReturned ==
    (shell # Pending /\ DocHas("status") /\ IsStr(doc.o["status"])
        /\ doc.o["status"].s \notin {"success", "error"}) =>
        shell = Err("UnknownResponseStatus", doc.o["status"].s, "")

\* A status "Success" document with a decodable vector in data has been given
\* to parse_response.
C21_Witness ==
    /\ shell # Pending /\ shell.st = "Err"
    /\ DocString("status") = "Success"
    /\ DocResultType = "vector" /\ DocStatsWellFormed
    /\ "result" \in DOMAIN DocData /\ IsArr(DocResult) /\ Len(DocResult.a) = 2

\* C22: a status "error" document with an errorType string, known or not,
\* and an error message gives a protocol error holding that errorType and
\* that message unchanged, from parse_response and from the typed decoder.
C22_ErrorKindIsPreserved ==
    (/\ DocString("status") = "error"
     /\ DocHas("errorType") /\ IsStr(doc.o["errorType"])
     /\ DocHas("error") /\ IsStr(doc.o["error"])) =>
        /\ shell # Pending =>
               shell = Err("ResponseError", doc.o["errorType"].s, doc.o["error"].s)
        /\ typed # Pending =>
               typed = [st |-> "Error", kind |-> doc.o["errorType"].s,
                        message |-> doc.o["error"].s]

\* A document with an errorType outside the known kinds has gone through
\* both decoders.
C22_Witness ==
    /\ shell # Pending /\ typed # Pending
    /\ DocString("status") = "error"
    /\ DocString("errorType") = "new_kind"
    /\ shell.st = "Err" /\ shell.err = "ResponseError" /\ shell.a = "new_kind"
    /\ typed.st = "Error"


BuildDateShape(s) ==
    /\ Len(s) = 17
    /\ \A j \in (1..17) \ {9, 12, 15} : IsDigit(s[j])
    /\ s[9] = "-" /\ s[12] = ":" /\ s[15] = ":"

\* The components of a string of that shape.
BuildDateComponents(s) ==
    [year |-> DigitsValue(s, 1, 4), month |-> DigitsValue(s, 5, 2),
     day |-> DigitsValue(s, 7, 2), hour |-> DigitsValue(s, 10, 2),
     minute |-> DigitsValue(s, 13, 2), second |-> DigitsValue(s, 16, 2)]

\* The components are a date of the calendar and a time of the day.
BuildDateInRange(c) ==
    /\ c.month \in 1..12
    /\ c.day >= 1
    /\ c.day <= (CASE c.month \in {4, 6, 9, 11} -> 30
                   [] c.month = 2 ->
                        IF c.year % 4 = 0 /\ (c.year % 100 # 0 \/ c.year % 400 = 0)
                        THEN 29 ELSE 28
                   [] OTHER -> 31)
    /\ c.hour \in 0..23 /\ c.minute \in 0..59 /\ c.second \in 0..59

\* C24: deserialize_build_info_date returns the date-time of a string of
\* the shape YYYYMMDD-HH:MM:SS whose components are in range, with those
\* components, and fails on every other string with the error that names
\* the expected pattern.
C24_ExactlyTheFixedShape ==
    (typed # Pending /\ typed.as = "PrimitiveDateTime" /\ IsStr(doc)) =>
        IF BuildDateShape(doc.s) /\ BuildDateInRange(BuildDateComponents(doc.s))
        THEN typed.r = Ok(BuildDateComponents(doc.s))
        ELSE /\ ~typed.r.ok
             /\ typed.r.error = "invalid_value"
             /\ typed.r.expected = BuildInfoDateExpected


\* What a call that has returned returns when it runs alone: a function of
\* its parameters and of the response to its request (no status when send()
\* failed, else the status and, for a status that is no error, the body).
ResultAlone(call) ==
    IF call.step.some /\ ~validate_duration(call.step.v)
    THEN Err("InvalidDuration", "step", "")
    ELSE IF call.timeout.some /\ ~validate_duration(call.timeout.v)
    THEN Err("InvalidDuration", "timeout", "")
    ELSE IF call.status = 0 THEN Err("Reqwest", "send", "")
    ELSE IF call.status >= 400 THEN Err("Reqwest", "status", "")
    ELSE IF ~IsObj(call.body) THEN Err("Reqwest", "decode", "")
    ELSE parse_response(call.body.o)

\* The request a call sends when it runs alone: a function of its
\* parameters and of the default base URL.
RequestAlone(c) ==
    [call |-> c,
     url |-> Append(DefaultBaseUrl, "/query"),
     params |->
        (IF calls[c].method = "query"
         THEN <<<<"query", calls[c].query>>>>
                \o (IF calls[c].time.some
                    THEN <<<<"time", to_string(calls[c].time.v)>>>> ELSE <<>>)
         ELSE << <<"query", calls[c].query>>, <<"start", to_string(calls[c].start)>>,
                 <<"end", to_string(calls[c].end)>>, <<"step", calls[c].step.v>> >>)
        \o (IF calls[c].timeout.some THEN <<<<"timeout", calls[c].timeout.v>>>> ELSE <<>>)]

\* C25: in every interleaving of two calls the base URL stays what it was,
\* each request and each returned result is what the call gives when it
\* runs alone, and a step of one call changes nothing of the other call.
C25_CallsAreIndependent ==
    /\ [](/\ base_url = DefaultBaseUrl
          /\ \A c \in Calls :
                /\ calls[c].pc = "done" => calls[c].outcome = ResultAlone(calls[c])
                /\ \A i \in RequestsOf(c) : wire[i] = RequestAlone(c))
    /\ [][\A c \in Calls : \A d \in Calls \ {c} :
            calls'[c] # calls[c] =>
                /\ calls'[d] = calls[d]
                /\ {i \in 1..Len(wire') : wire'[i].call = d} = RequestsOf(d)
                /\ \A i \in RequestsOf(d) : wire'[i] = wire[i]]_vars

\* Two calls in flight at once with different answers: c2 sent its request
\* first and still waits for its body, c1 sent second and has returned a
\* vector; the other way round c2 has returned a protocol error while c1
\* waits.
C25_Witness ==
    /\ Len(wire) = 2 /\ wire[1].call = "c2" /\ wire[2].call = "c1"
    /\ calls["c1"].pc = "done" /\ calls["c1"].method = "query"
    /\ calls["c1"].outcome.st = "Ok" /\ calls["c1"].outcome.variant = "Vector"
    /\ calls["c2"].pc = "body" /\ calls["c2"].method = "query_range"


\* C26: deserialize_prometheus_duration on "1d12h10m" returns 129,000,000
\* milliseconds.
C26_Returns129000000 ==
    (duration # Pending /\ raw_str = <<"1", "d", "1", "2", "h", "1", "0", "m">>) =>
        duration = [st |-> "ok", ms |-> I64(129000000)]

\* C26 (amended): deserialize_prometheus_duration on "1d12h10m" returns
\* 130,200,000 milliseconds, the sum of 86,400,000 for the day, 43,200,000
\* for the twelve hours and 600,000 for the ten minutes.
C26_Returns130200000 ==
    (duration # Pending /\ raw_str = <<"1", "d", "1", "2", "h", "1", "0", "m">>) =>
        /\ duration = [st |-> "ok", ms |-> I64(130200000)]
        /\ 130200000 = 86400000 + 43200000 + 600000

\* "1d12h10m" has been parsed.
C26_Witness ==
    /\ duration # Pending /\ duration.st = "ok"
    /\ raw_str = <<"1", "d", "1", "2", "h", "1", "0", "m">>


\* The outcome class of each decoder: the variant of a success, Error for a
\* protocol error, Failure for every other outcome.
ShellClass ==
    CASE shell.st = "Ok" -> shell.variant
      [] shell.st = "Err" /\ shell.err = "ResponseError" -> "Error"
      [] OTHER -> "Failure"
TypedClass ==
    CASE typed.st = "Success" -> typed.data.variant
      [] typed.st = "Error" -> "Error"
      [] OTHER -> "Failure"

\* C27: parse_response and the decode of ApiResponse<PromqlResult> give
\* every document the same outcome class (Vector, Matrix, Scalar, protocol
\* error or failure), and on success the same series in the same order,
\* with the same labels, as many samples in the same order, the same
\* timestamps, and the values parse_response keeps as text being the
\* numbers the typed decoder returns.
C27_ShellAgreesWithTypedDecoder ==
    (shell # Pending /\ typed # Pending) =>
        /\ ShellClass = TypedClass
        /\ shell.st = "Ok" =>
               /\ Len(shell.result) = Len(typed.data.series)
               /\ \A i \in 1..Len(shell.result) :
                      /\ shell.result[i].labels = typed.data.series[i].metric
                      /\ Len(shell.result[i].values) = Len(typed.data.series[i].samples)
                      /\ \A j \in 1..Len(shell.result[i].values) :
                             /\ shell.result[i].values[j].timestamp =
                                    typed.data.series[i].samples[j].timestamp
                             /\ F64FromStr(shell.result[i].values[j].value) =
                                    Ok(typed.data.series[i].samples[j].value)


\* The names of a request's parameters and the value under a name.
ParamNames(params) == {params[i][1] : i \in 1..Len(params)}
ParamValue(params, name) == params[CHOOSE i \in 1..Len(params) : params[i][1] = name][2]

\* The decimal text of the integers the calls are given.
DecimalText(n) ==
    CASE n = 1435781451 -> <<"1", "4", "3", "5", "7", "8", "1", "4", "5", "1">>
      [] n = 1435781430 -> <<"1", "4", "3", "5", "7", "8", "1", "4", "3", "0">>
      [] n = 1435781460 -> <<"1", "4", "3", "5", "7", "8", "1", "4", "6", "0">>
      [] n = -1 -> <<"-", "1">>

\* C28: a request of query carries query, time exactly when a time is given
\* and timeout exactly when a timeout is given; a request of query_range
\* carries query, start, end, step and timeout exactly when a timeout is
\* given; no name appears twice, no other name appears, and each value is
\* the caller's argument, an integer as its decimal text.
C28_ExactParameters ==
    \A i \in 1..Len(wire) :
        LET call == calls[wire[i].call]
            params == wire[i].params
        IN  /\ Cardinality(ParamNames(params)) = Len(params)
            /\ call.method = "query" =>
                   ParamNames(params) =
                       {"query"} \cup (IF call.time.some THEN {"time"} ELSE {})
                                 \cup (IF call.timeout.some THEN {"timeout"} ELSE {})
            /\ call.method = "query_range" =>
                   ParamNames(params) =
                       {"query", "start", "end", "step"}
                           \cup (IF call.timeout.some THEN {"timeout"} ELSE {})
            /\ ParamValue(params, "query") = call.query
            /\ "time" \in ParamNames(params) =>
                   ParamValue(params, "time") = DecimalText(call.time.v)
            /\ "timeout" \in ParamNames(params) =>
                   ParamValue(params, "timeout") = call.timeout.v
            /\ "start" \in ParamNames(params) =>
                   /\ ParamValue(params, "start") = DecimalText(call.start)
                   /\ ParamValue(params, "end") = DecimalText(call.end)
                   /\ ParamValue(params, "step") = call.step.v

\* A query without time and timeout and a query_range with a timeout have
\* both sent their requests.
C28_Witness ==
    /\ Len(wire) = 2
    /\ calls[wire[1].call].method = "query"
    /\ ~calls[wire[1].call].time.some /\ ~calls[wire[1].call].timeout.some
    /\ Len(wire[1].params) = 1
    /\ calls[wire[2].call].method = "query_range"
    /\ calls[wire[2].call].timeout.some
    /\ Len(wire[2].params) = 5


\* C29: every request of query goes to base_url + "/query" and every
\* request of query_range to base_url + "/query_range", so that no request
\* of a range query is on the instant-query path.
C29_DistinctEndpoints ==
    \A i \in 1..Len(wire) :
        /\ calls[wire[i].call].method = "query" =>
               wire[i].url = Append(base_url, "/query")
        /\ calls[wire[i].call].method = "query_range" =>
               /\ wire[i].url = Append(base_url, "/query_range")
               /\ wire[i].url # Append(base_url, "/query")


\* The mathematical total of a valid duration string, the unit ms counting
\* one millisecond: ms is the sum, range says that it is at most i64::MAX
\* (every term is non-negative, so the total fits exactly when every
\* integer, product and partial sum does).
RECURSIVE TotalSum(_, _, _, _, _)
TotalSum(s, i, digits, ms, range) ==
    IF i > Len(s) THEN [ms |-> ms, range |-> range]
    ELSE IF IsDigit(s[i]) THEN TotalSum(s, i + 1, Append(digits, s[i]), ms, range)
    ELSE LET isMs == s[i] = "m" /\ i + 1 <= Len(s) /\ s[i + 1] = "s"
             n == ParseDigits(digits, I64(0))
             p == I64MulChain(n.v, IF isMs THEN <<>> ELSE UnitMs(s[i]))
             a == I64Add(ms, p.v)
         IN  TotalSum(s, IF isMs THEN i + 2 ELSE i + 1, <<>>, a.v,
                      range /\ n.ok /\ ~p.ovf /\ ~a.ovf)

Total == TotalSum(raw_str, 1, <<>>, I64(0), TRUE)

\* C30: for a valid input whose mathematical total is at most i64::MAX no
\* product or partial sum of the accumulation overflows and the result is
\* that total, which is not negative; an accumulation that overflows has an
\* input whose total is beyond i64::MAX, and that input is not refused with
\* an error.
C30_OverflowOnlyBeyondRange ==
    (duration # Pending /\ validate_duration(raw_str)) =>
        /\ Total.range =>
               /\ InRange(raw_str)
               /\ duration = [st |-> "ok", ms |-> Total.ms]
               /\ ~I64Negative(duration.ms)
        /\ ~InRange(raw_str) =>
               /\ ~Total.range
               /\ duration.st \in {"panic", "ok"}

====
